---- MODULE Spec2Model ----
(***************************************************************************)
(* Model of the four-stage financial analysis pipeline                     *)
(* (src/main.py, src/nodes.py): data_ingestion_node, analysis_node,        *)
(* risk_node, synthesis_node with its model-backed path and its offline    *)
(* fallback generate_offline_summary, and run_financial_analysis.          *)
(*                                                                         *)
(* Conventions.                                                            *)
(*  - A Python dict is a function whose DOMAIN is the set of keys present. *)
(*  - Free text (error messages, reports) is a sequence of tokens; an      *)
(*    f-string is the concatenation of its literal pieces and its values.  *)
(*  - A metric value is a tagged record: Num(v) (a float or int, v in      *)
(*    units of 1/Scale), NaN, Str(s) (a Python str) or None.               *)
(*  - Floating-point arithmetic is fixed-point arithmetic with Scale       *)
(*    units per 1.0 (five decimals), every operation rounding to the       *)
(*    nearest unit.  On the price series of the model the trend, MACD,     *)
(*    signal line and drawdowns equal the IEEE double results as reported; *)
(*    RSI can differ by one unit and volatility by two units of the last   *)
(*    reported digit, and the Sharpe ratio by the relative error that      *)
(*    leaves in the volatility it is divided by.                           *)
(***************************************************************************)
EXTENDS Integers, Sequences, FiniteSets, TLC

VARIABLES
    pc,      \* the node the graph runs next, or where the invocation ended
    state,   \* the FinancialState of the invocation
    ret,     \* the update the latest node returned
    exc,     \* the exception that left the invocation, if one did
    output,  \* the record run_financial_analysis returns
    trace,   \* history: the nodes run so far, in order
    calls,   \* history: the model identifiers invoked so far, in order
    fetch,   \* history: what the price-data collaborator did
    llm      \* history: what the language-model collaborator was set to do

vars == <<pc, state, ret, exc, output, trace, calls, fetch, llm>>

(***************************************************************************)
(* Bounds of the model.                                                    *)
(***************************************************************************)
\* longest price series the price-data collaborator returns
MaxRows == 3

\* close prices a row of the series can carry
Closes == {98, 100, 102}

\* identifiers handed to run_financial_analysis
Tickers == {<<"AAPL">>, <<"ZZZZ">>}

\* str(e) of a fault raised by the price-data collaborator
FetchFaults == {<< >>, <<"Connection timed out">>}

(***************************************************************************)
(* Values: numbers, NaN, strings, None.                                    *)
(***************************************************************************)
Scale == 100 * 1000

Num(v) == [t |-> "num", v |-> v]

NaN == [t |-> "nan"]

Str(s) == [t |-> "str", s |-> s]

None == [t |-> "none"]

\* isinstance(x, (int, float))
IsNumeric(x) == x.t \in {"num", "nan"}

\* isinstance(x, str)
IsStr(x) == x.t = "str"

\* x < y, x >= y, x > y on Python numbers: every comparison with NaN is False
Lt(x, y) == x.t = "num" /\ y.t = "num" /\ x.v < y.v

Ge(x, y) == x.t = "num" /\ y.t = "num" /\ x.v >= y.v

Gt(x, y) == x.t = "num" /\ y.t = "num" /\ x.v > y.v

(***************************************************************************)
(* Fixed-point arithmetic.                                                 *)
(***************************************************************************)
Abs(a) == IF a < 0 THEN -a ELSE a

Sign(a) == IF a < 0 THEN -1 ELSE 1

Max(a, b) == IF a >= b THEN a ELSE b

Min(a, b) == IF a <= b THEN a ELSE b

\* <<q, r>> with a * m = q * b + r and 0 <= r < b, for a, m >= 0 and b > 0,
\* computed by doubling so that no intermediate product exceeds 3 * b
RECURSIVE MulDivQR(_, _, _)
MulDivQR(a, m, b) ==
    IF m = 0 THEN <<0, 0>>
    ELSE LET h  == MulDivQR(a, m \div 2, b)
             r3 == 2 * h[2] + (IF m % 2 = 1 THEN a % b ELSE 0)
             q3 == 2 * h[1] + (IF m % 2 = 1 THEN a \div b ELSE 0)
         IN  <<q3 + (r3 \div b), r3 % b>>

\* a * m / b rounded to the nearest integer (ties away from zero), b # 0
MulDiv(a, m, b) ==
    LET qr == MulDivQR(Abs(a), Abs(m), Abs(b))
        n  == qr[1] + (IF 2 * qr[2] >= Abs(b) THEN 1 ELSE 0)
    IN  Sign(a) * Sign(m) * Sign(b) * n

\* x * y and x / y on fixed-point numbers
FMul(x, y) == MulDiv(x, y, Scale)

FDiv(x, y) == MulDiv(x, Scale, y)

\* round(x, d): x rounded to a multiple of unit, ties to even (Python, numpy)
RoundTo(x, unit) ==
    LET a == Abs(x)
        q == a \div unit
        r == a % unit
        n == IF 2 * r > unit THEN q + 1
             ELSE IF 2 * r < unit THEN q
             ELSE IF q % 2 = 0 THEN q ELSE q + 1
    IN  Sign(x) * n * unit

\* floor of the square root of n >= 0
RECURSIVE ISqrtFrom(_, _, _)
ISqrtFrom(n, lo, hi) ==
    IF lo >= hi THEN lo
    ELSE LET mid == (lo + hi + 1) \div 2
         IN  IF mid <= n \div mid THEN ISqrtFrom(n, mid, hi)
             ELSE ISqrtFrom(n, lo, mid - 1)

\* the square root of n rounded to the nearest integer
ISqrt(n) ==
    LET f == ISqrtFrom(n, 0, Min(n, 46340))
    IN  IF n - f * f > f THEN f + 1 ELSE f

(***************************************************************************)
(* Text.                                                                   *)
(***************************************************************************)
\* needle in hay (Python's substring test) on token sequences
Contains(hay, needle) ==
    \E i \in 0..(Len(hay) - Len(needle)) :
        \A j \in 1..Len(needle) : hay[i + j] = needle[j]

\* sep.join(parts)
RECURSIVE Join(_, _)
Join(sep, parts) ==
    IF parts = << >> THEN << >>
    ELSE IF Len(parts) = 1 THEN parts[1]
    ELSE parts[1] \o sep \o Join(sep, Tail(parts))

(***************************************************************************)
(* Dicts.                                                                  *)
(***************************************************************************)
EmptyDict == [k \in {} |-> None]

\* d.get(k, default)
Get(d, k, default) == IF k \in DOMAIN d THEN d[k] ELSE default

\* the state after a node's update is merged into it (one last-value channel per key)
Merge(d, upd) ==
    [k \in (DOMAIN d) \cup (DOMAIN upd) |-> IF k \in DOMAIN upd THEN upd[k] ELSE d[k]]

\* what a node hands back: a state update, or an exception that leaves the node
Returned(upd) == [raised |-> FALSE, update |-> upd]

Raised(e) == [raised |-> TRUE, exc |-> e]

(***************************************************************************)
(* Price series: what stock.history hands back.                            *)
(***************************************************************************)
\* a DataFrame of closes in date order, or None
Frame(closes) == [isNone |-> FALSE, closes |-> closes]

NoFrame == [isNone |-> TRUE, closes |-> << >>]

SeriesOfLen(n) == [1..n -> Closes]

\* a series whose exact Sharpe ratio (0.498) lies just below the 0.5 it rounds to
ThresholdSeries == {<<97, 120, 94>>}

\* a series that falls from its peak and recovers part of the fall
RecoverySeries == {<<98, 102, 98, 100>>}

PriceSeries ==
    UNION {SeriesOfLen(n) : n \in 0..MaxRows} \cup ThresholdSeries \cup RecoverySeries

\* the outcomes of yf.Ticker(t).history(period="5y", auto_adjust=True)
HistoryOutcomes ==
    {[kind |-> "frame", hist |-> Frame(s), text |-> << >>] : s \in PriceSeries}
    \cup {[kind |-> "frame", hist |-> NoFrame, text |-> << >>]}
    \cup {[kind |-> "fault", hist |-> NoFrame, text |-> m] : m \in FetchFaults}

\* strftime('%Y-%m-%d') of the date of row i
DateStr(i) == <<"date", ToString(i)>>

(***************************************************************************)
(* Agent 1: data_ingestion_node.                                           *)
(***************************************************************************)
NoDataMsg(ticker) ==
    <<"No data found for ticker '">> \o ticker
        \o <<"'. Please verify the ticker symbol is correct.">>

FetchErrorMsg(ticker, text) ==
    <<"Error fetching data for ticker '">> \o ticker \o <<"': ">> \o text

\* mutant: the failure update also carries a date range
IngestFailure_WithDates(error_msg) ==
    [historical_data |-> NoFrame, start_date |-> DateStr(1), end_date |-> DateStr(1),
     error |-> error_msg, success |-> FALSE]

IngestFailure(error_msg) ==
    [historical_data |-> NoFrame, error |-> error_msg, success |-> FALSE]

\* mutant: the fetch is not guarded by the try block
data_ingestion_node_Uncaught(st, h) ==
    IF h.kind = "fault" \/ h.hist.isNone
    THEN Raised("stock.history")
    ELSE IF h.hist.closes = << >>
    THEN Returned(IngestFailure(NoDataMsg(st["ticker"])))
    ELSE Returned([historical_data |-> h.hist,
                   start_date |-> DateStr(1),
                   end_date |-> DateStr(Len(h.hist.closes)),
                   success |-> TRUE])

data_ingestion_node(st, h) ==
    LET ticker == st["ticker"]
    IN  IF h.kind = "fault"
        THEN Returned(IngestFailure(FetchErrorMsg(ticker, h.text)))
        ELSE IF h.hist.isNone
        THEN \* hist.empty on None raises AttributeError inside the try
             Returned(IngestFailure(FetchErrorMsg(ticker,
                 <<"'NoneType' object has no attribute 'empty'">>)))
        ELSE IF h.hist.closes = << >>
        THEN Returned(IngestFailure(NoDataMsg(ticker)))
        ELSE Returned([historical_data |-> h.hist,
                       start_date |-> DateStr(1),
                       end_date |-> DateStr(Len(h.hist.closes)),
                       success |-> TRUE])

(***************************************************************************)
(* The error check every later stage starts with.                          *)
(***************************************************************************)
\* state.get("error") or state.get("historical_data") is None
HasUpstreamError(st) ==
    \/ ("error" \in DOMAIN st /\ st["error"] # << >>)
    \/ "historical_data" \notin DOMAIN st
    \/ st["historical_data"].isNone

\* mutant: the stage reports its own message instead of the one it found
UpstreamErrorMsg_Default(st) == <<"No historical data available">>

\* state.get("error", "No historical data available")
UpstreamErrorMsg(st) == Get(st, "error", <<"No historical data available">>)

(***************************************************************************)
(* Company info: what stock.info hands back.                               *)
(***************************************************************************)
FullInfo(pe) ==
    [marketCap |-> Num(3000), trailingPE |-> pe, forwardPE |-> Num(25 * Scale),
     sector |-> Str("Technology")]

\* the outcomes of yf.Ticker(t).info: a mapping, each key optional, or a fault
InfoOutcomes ==
    {[kind |-> "dict", info |-> d] :
        d \in {EmptyDict, FullInfo(Num(18 * Scale)), FullInfo(Num(40 * Scale)),
               FullInfo(Str("Infinity"))}}
    \cup {[kind |-> "fault", info |-> EmptyDict]}

(***************************************************************************)
(* Indicator engine: exponentially weighted means, RSI, MACD.              *)
(***************************************************************************)
\* Series.ewm(alpha = an/ad, adjust=False).mean(): y1 = x1,
\* y[t] = (1 - alpha) * y[t-1] + alpha * x[t], left unchanged when x[t] = y[t-1]
RECURSIVE Ewm(_, _, _)
Ewm(xs, an, ad) ==
    IF Len(xs) <= 1 THEN xs
    ELSE LET n    == Len(xs)
             prev == Ewm(SubSeq(xs, 1, n - 1), an, ad)
             y    == IF prev[n - 1] = xs[n] THEN xs[n]
                     ELSE MulDiv((ad - an) * prev[n - 1] + an * xs[n], 1, ad)
         IN  Append(prev, y)

\* the close column as fixed-point numbers
CloseFP(closes) == [i \in 1..Len(closes) |-> closes[i] * Scale]

\* Series.diff() with the undefined first delta already replaced by 0 (where(cond, 0))
GainSeries(cs) ==
    [i \in 1..Len(cs) |-> IF i > 1 /\ cs[i] - cs[i - 1] > 0 THEN cs[i] - cs[i - 1] ELSE 0]

LossSeries(cs) ==
    [i \in 1..Len(cs) |-> IF i > 1 /\ cs[i] - cs[i - 1] < 0 THEN cs[i - 1] - cs[i] ELSE 0]

\* the latest RSI, unrounded: 100 - 100 / (1 + gain / loss) in IEEE arithmetic
\* (0/0 is NaN; gain/0 is an infinity, for which the expression is 100)
LatestRSI(closes) ==
    LET cs   == CloseFP(closes)
        n    == Len(cs)
        gain == Ewm(GainSeries(cs), 1, 14)[n]
        loss == Ewm(LossSeries(cs), 1, 14)[n]
    IN  IF loss = 0
        THEN (IF gain = 0 THEN NaN ELSE Num(100 * Scale))
        ELSE Num(100 * Scale - FDiv(100 * Scale, Scale + FDiv(gain, loss)))

\* the MACD line: EMA(span 12) - EMA(span 26); span s is alpha = 2 / (s + 1)
MACDLine(closes) ==
    LET cs    == CloseFP(closes)
        ema12 == Ewm(cs, 2, 13)
        ema26 == Ewm(cs, 2, 27)
    IN  [i \in 1..Len(cs) |-> ema12[i] - ema26[i]]

\* the signal line: EMA(span 9) of the MACD line
SignalLine(closes) == Ewm(MACDLine(closes), 2, 10)

\* round(x, 2) and round(x, 4) on a number or NaN
Round2(x) == IF x.t = "num" THEN Num(RoundTo(x.v, Scale \div 100)) ELSE x

Round4(x) == IF x.t = "num" THEN Num(RoundTo(x.v, Scale \div 10000)) ELSE x

(***************************************************************************)
(* Agent 2: analysis_node.                                                 *)
(***************************************************************************)
Fundamentals(info) ==
    [market_cap |-> Get(info, "marketCap", Str("N/A")),
     pe_ratio   |-> Get(info, "trailingPE", Str("N/A")),
     forward_pe |-> Get(info, "forwardPE", Str("N/A")),
     sector     |-> Get(info, "sector", Str("Unknown"))]

Technicals(closes) ==
    LET n      == Len(closes)
        macd   == MACDLine(closes)[n]
        signal == SignalLine(closes)[n]
    IN  [current_price |-> Num(closes[n] * Scale),
         rsi_14        |-> Round2(LatestRSI(closes)),
         macd_line     |-> Round2(Num(macd)),
         signal_line   |-> Round2(Num(signal)),
         trend         |-> Str(IF macd > signal THEN "Bullish" ELSE "Bearish")]

analysis_node(st, i) ==
    IF HasUpstreamError(st)
    THEN Returned([fundamental_metrics |-> EmptyDict,
                   technical_indicators |-> EmptyDict,
                   error |-> UpstreamErrorMsg(st),
                   success |-> FALSE])
    ELSE IF i.kind = "fault"
    THEN \* stock.info is read outside any try block
         Raised("stock.info")
    ELSE Returned([fundamental_metrics |-> Fundamentals(i.info),
                   technical_indicators |-> Technicals(st["historical_data"].closes)])

(***************************************************************************)
(* Risk engine: returns, drawdown, volatility, Sharpe ratio.               *)
(***************************************************************************)
\* Close.pct_change() without its undefined first entry: entry i is the return
\* of row i + 1
Returns(closes) ==
    [i \in 1..(Len(closes) - 1) |-> MulDiv(closes[i + 1] - closes[i], Scale, closes[i])]

\* (1 + returns).cumprod()
RECURSIVE CumProd(_)
CumProd(rs) ==
    IF rs = << >> THEN << >>
    ELSE IF Len(rs) = 1 THEN <<Scale + rs[1]>>
    ELSE LET n    == Len(rs)
             prev == CumProd(SubSeq(rs, 1, n - 1))
         IN  Append(prev, FMul(prev[n - 1], Scale + rs[n]))

\* Series.cummax()
RECURSIVE CumMax(_)
CumMax(xs) ==
    IF Len(xs) <= 1 THEN xs
    ELSE LET n    == Len(xs)
             prev == CumMax(SubSeq(xs, 1, n - 1))
         IN  Append(prev, Max(prev[n - 1], xs[n]))

\* mutant: the fall is measured from the first value, not from the running maximum
Drawdown_FromFirst(closes) ==
    LET cum == CumProd(Returns(closes))
    IN  [i \in 1..Len(cum) |-> FDiv(cum[i] - cum[1], cum[1])]

\* (cumulative_returns - running_max) / running_max
Drawdown(closes) ==
    LET cum == CumProd(Returns(closes))
        top == CumMax(cum)
    IN  [i \in 1..Len(cum) |-> FDiv(cum[i] - top[i], top[i])]

\* Series.min(), Series.mean(), Series.std() skip the undefined entries
SeqMin(xs) == CHOOSE m \in {xs[i] : i \in 1..Len(xs)} : \A i \in 1..Len(xs) : m <= xs[i]

RECURSIVE SeqSum(_)
SeqSum(xs) == IF xs = << >> THEN 0 ELSE xs[1] + SeqSum(Tail(xs))

SeqMean(xs) == MulDiv(SeqSum(xs), 1, Len(xs))

\* the sample standard deviation (ddof = 1) of at least two values
SeqStd(xs) ==
    LET m  == SeqMean(xs)
        sq == [i \in 1..Len(xs) |-> (xs[i] - m) * (xs[i] - m)]
    IN  ISqrt(MulDiv(SeqSum(sq), 1, Len(xs) - 1))

\* 252 ** 0.5 as a fixed-point number
SQRT_252 == 1587451

TRADING_DAYS == 252

\* risk_free_rate = 0.04
RISK_FREE_RATE == (4 * Scale) \div 100

MaxDrawdown(closes) ==
    IF Len(closes) < 2 THEN NaN ELSE Num(SeqMin(Drawdown(closes)))

CurrentDrawdown(closes) ==
    IF Len(closes) < 2 THEN NaN ELSE Num(Drawdown(closes)[Len(closes) - 1])

MeanReturn(closes) ==
    IF Len(closes) < 2 THEN NaN ELSE Num(SeqMean(Returns(closes)) * TRADING_DAYS)

StdDev(closes) ==
    IF Len(closes) < 3 THEN NaN ELSE Num(FMul(SeqStd(Returns(closes)), SQRT_252))

\* (mean_return - risk_free_rate) / std_dev if std_dev != 0 else 0
SharpeRatio(closes) ==
    LET mean == MeanReturn(closes)
        std  == StdDev(closes)
    IN  IF std.t = "num" /\ std.v = 0 THEN Num(0)
        ELSE IF std.t = "nan" \/ mean.t = "nan" THEN NaN
        ELSE Num(FDiv(mean.v - RISK_FREE_RATE, std.v))

(***************************************************************************)
(* Agent 3: risk_node.                                                     *)
(***************************************************************************)
RiskMetrics(closes) ==
    [max_drawdown     |-> Round4(MaxDrawdown(closes)),
     current_drawdown |-> Round4(CurrentDrawdown(closes)),
     volatility       |-> Round4(StdDev(closes)),
     sharpe_ratio     |-> Round2(SharpeRatio(closes))]

risk_node(st) ==
    IF HasUpstreamError(st)
    THEN Returned([risk_metrics |-> EmptyDict,
                   error |-> UpstreamErrorMsg(st),
                   success |-> FALSE])
    ELSE Returned([risk_metrics |-> RiskMetrics(st["historical_data"].closes)])

(***************************************************************************)
(* String conversions used by the report generators.                       *)
(***************************************************************************)
\* str.lower() on the strings that occur
Lower(s) ==
    CASE s = "Bullish" -> "bullish"
      [] s = "BULLISH" -> "bullish"
      [] s = "Bearish" -> "bearish"
      [] s = "Unknown" -> "unknown"
      [] s = "Not Found" -> "not found"
      [] OTHER -> s

TwoDigits(n) == IF n < 10 THEN "0" \o ToString(n) ELSE ToString(n)

\* c hundredths as "-12.34"
Hundredths(c) ==
    (IF c < 0 THEN "-" ELSE "") \o ToString(Abs(c) \div 100) \o "."
        \o TwoDigits(Abs(c) % 100)

\* f"{x:.2f}" of a number or NaN
FormatF2(x) ==
    IF x.t = "nan" THEN "nan"
    ELSE Hundredths(RoundTo(x.v, Scale \div 100) \div (Scale \div 100))

\* f"{x:.2%}" of a number or NaN
FormatPct2(x) ==
    IF x.t = "nan" THEN "nan%"
    ELSE Hundredths(RoundTo(x.v, Scale \div 10000) \div (Scale \div 10000)) \o "%"

(***************************************************************************)
(* The decision framework of generate_offline_summary.                     *)
(***************************************************************************)
RSI_OVERBOUGHT == 70 * Scale

PE_LIMIT == 30 * Scale

SHARPE_POSITIVE == Scale \div 2

DRAWDOWN_SEVERE == -((15 * Scale) \div 100)

VOL_HIGH == (35 * Scale) \div 100

DRAWDOWN_EXTREME == -((30 * Scale) \div 100)

VOL_LOW == (20 * Scale) \div 100

SHARPE_LOW_RISK == (70 * Scale) \div 100

VOL_MEDIUM == (25 * Scale) \div 100

\* pe_numeric: float(pe_ratio) when pe_ratio is an int or a float, else None
PeNumeric(pe_ratio) == IF IsNumeric(pe_ratio) THEN pe_ratio ELSE None

IsBullish(trend) == Lower(trend.s) = "bullish"

RsiOk(rsi) == IsNumeric(rsi) /\ Lt(rsi, Num(RSI_OVERBOUGHT))

SharpePositive(sharpe_ratio) ==
    IsNumeric(sharpe_ratio) /\ Ge(sharpe_ratio, Num(SHARPE_POSITIVE))

DrawdownSevere(current_drawdown) ==
    IsNumeric(current_drawdown) /\ Lt(current_drawdown, Num(DRAWDOWN_SEVERE))

PeReasonable(pe_numeric) == pe_numeric = None \/ Lt(pe_numeric, Num(PE_LIMIT))

\* Recommend with the SELL rule not asking for a trend that is not bullish
Recommend_SellOnBullish(trend, rsi, pe_numeric, sharpe_ratio, current_drawdown) ==
    IF IsBullish(trend) /\ RsiOk(rsi)
          /\ (PeReasonable(pe_numeric) \/ SharpePositive(sharpe_ratio))
    THEN "BUY"
    ELSE IF ~PeReasonable(pe_numeric) \/ DrawdownSevere(current_drawdown)
    THEN "SELL"
    ELSE "HOLD"

Recommend(trend, rsi, pe_numeric, sharpe_ratio, current_drawdown) ==
    IF IsBullish(trend) /\ RsiOk(rsi)
          /\ (PeReasonable(pe_numeric) \/ SharpePositive(sharpe_ratio))
    THEN "BUY"
    ELSE IF ~IsBullish(trend)
          /\ (~PeReasonable(pe_numeric) \/ DrawdownSevere(current_drawdown))
    THEN "SELL"
    ELSE "HOLD"

\* RiskLevel with the first rule comparing volatility > 0.35
RiskLevel_StrictHigh(volatility, current_drawdown, sharpe_ratio) ==
    IF IsNumeric(volatility) /\ Gt(volatility, Num(VOL_HIGH)) THEN "High"
    ELSE IF IsNumeric(current_drawdown) /\ Lt(current_drawdown, Num(DRAWDOWN_EXTREME))
    THEN "Extreme"
    ELSE IF IsNumeric(volatility) /\ Lt(volatility, Num(VOL_LOW))
            /\ IsNumeric(sharpe_ratio) /\ Ge(sharpe_ratio, Num(SHARPE_LOW_RISK))
    THEN "Low"
    ELSE "Medium"

\* RiskLevel with the drawdown rule tried before the volatility rule
RiskLevel_ExtremeFirst(volatility, current_drawdown, sharpe_ratio) ==
    IF IsNumeric(current_drawdown) /\ Lt(current_drawdown, Num(DRAWDOWN_EXTREME))
    THEN "Extreme"
    ELSE IF IsNumeric(volatility) /\ Ge(volatility, Num(VOL_HIGH)) THEN "High"
    ELSE IF IsNumeric(volatility) /\ Lt(volatility, Num(VOL_LOW))
            /\ IsNumeric(sharpe_ratio) /\ Ge(sharpe_ratio, Num(SHARPE_LOW_RISK))
    THEN "Low"
    ELSE "Medium"

\* RiskLevel with the last branch, volatility of 0.25 and more, giving High
RiskLevel_DefaultHigh(volatility, current_drawdown, sharpe_ratio) ==
    IF IsNumeric(volatility) /\ Ge(volatility, Num(VOL_HIGH)) THEN "High"
    ELSE IF IsNumeric(current_drawdown) /\ Lt(current_drawdown, Num(DRAWDOWN_EXTREME))
    THEN "Extreme"
    ELSE IF IsNumeric(volatility) /\ Lt(volatility, Num(VOL_LOW))
            /\ IsNumeric(sharpe_ratio) /\ Ge(sharpe_ratio, Num(SHARPE_LOW_RISK))
    THEN "Low"
    ELSE IF IsNumeric(volatility) /\ Lt(volatility, Num(VOL_MEDIUM)) THEN "Medium"
    ELSE "High"

RiskLevel(volatility, current_drawdown, sharpe_ratio) ==
    IF IsNumeric(volatility) /\ Ge(volatility, Num(VOL_HIGH)) THEN "High"
    ELSE IF IsNumeric(current_drawdown) /\ Lt(current_drawdown, Num(DRAWDOWN_EXTREME))
    THEN "Extreme"
    ELSE IF IsNumeric(volatility) /\ Lt(volatility, Num(VOL_LOW))
            /\ IsNumeric(sharpe_ratio) /\ Ge(sharpe_ratio, Num(SHARPE_LOW_RISK))
    THEN "Low"
    ELSE IF IsNumeric(volatility) /\ Lt(volatility, Num(VOL_MEDIUM)) THEN "Medium"
    ELSE "Medium"

(***************************************************************************)
(* The texts of generate_offline_summary.                                  *)
(***************************************************************************)
Reasoning(trend, rsi, pe_numeric, volatility, sharpe_ratio, current_drawdown) ==
    Join(<<" ">>,
        <<  <<"Technical analysis shows a ", Lower(trend.s), " trend with RSI at ",
              FormatF2(rsi), ".">>  >>
        \o (IF pe_numeric # None
            THEN << <<"P/E ratio of ", FormatF2(pe_numeric), " indicates ",
                      IF PeReasonable(pe_numeric) THEN "reasonable" ELSE "elevated",
                      " valuation.">> >>
            ELSE << <<"Valuation metrics are not available.">> >>)
        \o (IF IsNumeric(volatility)
            THEN << <<"Volatility is ", FormatPct2(volatility),
                      " with a Sharpe ratio of ", FormatF2(sharpe_ratio), ".">> >>
            ELSE << >>)
        \o (IF IsNumeric(current_drawdown)
            THEN << <<"Current drawdown is ", FormatPct2(current_drawdown), ".">> >>
            ELSE << >>))

KeyDrivers(trend, rsi, pe_numeric, sharpe_ratio, volatility, current_drawdown) ==
    << <<"Trend signal: ", trend.s>>, <<"RSI (14): ", FormatF2(rsi)>> >>
    \o (IF pe_numeric # None THEN << <<"P/E ratio: ", FormatF2(pe_numeric)>> >> ELSE << >>)
    \o (IF IsNumeric(sharpe_ratio)
        THEN << <<"Sharpe ratio: ", FormatF2(sharpe_ratio)>> >> ELSE << >>)
    \o (IF IsNumeric(volatility)
        THEN << <<"Volatility: ", FormatPct2(volatility)>> >> ELSE << >>)
    \o (IF IsNumeric(current_drawdown)
        THEN << <<"Current drawdown: ", FormatPct2(current_drawdown)>> >> ELSE << >>)

\* the report text both synthesis paths assemble
FinalReport(recommendation, risk_level, reasoning, key_drivers) ==
    <<"**Recommendation:** ", recommendation, "\n", "**Risk Level:** ", risk_level,
      "\n\n", "**Reasoning:**\n">> \o reasoning
        \o <<"\n\n", "**Key Drivers:**\n- ">> \o Join(<<"\n- ">>, key_drivers)

(***************************************************************************)
(* generate_offline_summary.                                               *)
(***************************************************************************)
generate_offline_summary(st) ==
    LET fundamentals     == Get(st, "fundamental_metrics", EmptyDict)
        technicals       == Get(st, "technical_indicators", EmptyDict)
        risk_metrics     == Get(st, "risk_metrics", EmptyDict)
        trend            == Get(technicals, "trend", Str("Unknown"))
        rsi              == Get(technicals, "rsi_14", Num(50 * Scale))
        pe_ratio         == Get(fundamentals, "pe_ratio", Str("N/A"))
        current_drawdown == Get(risk_metrics, "current_drawdown", Num(0))
        volatility       == Get(risk_metrics, "volatility", Num(0))
        sharpe_ratio     == Get(risk_metrics, "sharpe_ratio", Num(0))
        pe_numeric       == PeNumeric(pe_ratio)
    IN  IF ~IsStr(trend)
        THEN Raised("AttributeError: trend.lower()")
        ELSE IF ~IsNumeric(rsi)
        THEN Raised("format error: rsi:.2f")
        ELSE IF IsNumeric(volatility) /\ ~IsNumeric(sharpe_ratio)
        THEN Raised("format error: sharpe_ratio:.2f")
        ELSE
        LET recommendation ==
                Recommend(trend, rsi, pe_numeric, sharpe_ratio, current_drawdown)
            risk_level == RiskLevel(volatility, current_drawdown, sharpe_ratio)
            reasoning ==
                Reasoning(trend, rsi, pe_numeric, volatility, sharpe_ratio,
                          current_drawdown)
            key_drivers ==
                KeyDrivers(trend, rsi, pe_numeric, sharpe_ratio, volatility,
                           current_drawdown)
        IN  Returned([recommendation |-> recommendation,
                      risk_level     |-> risk_level,
                      reasoning      |-> reasoning,
                      key_drivers    |-> key_drivers,
                      final_report   |->
                          FinalReport(recommendation, risk_level, reasoning, key_drivers),
                      llm_used       |-> FALSE])

(***************************************************************************)
(* The language-model collaborator.                                        *)
(***************************************************************************)
model_name == "gemini-2.0-flash"

fallback_model == "gemini-1.5-pro"

\* recommendation and risk_level texts a model response can carry: the
\* FinancialReport fields are plain strings, so any text parses
ModelRecommendations == {"BUY", "SELL", "ERROR", "STRONG BUY"}

ModelRiskLevels == {"Low", "High", "Extreme", "Moderate"}

\* the dict of a parsed FinancialReport
FinancialReport(recommendation, risk_level) ==
    [recommendation |-> recommendation,
     reasoning      |-> <<"Momentum outweighs valuation.">>,
     key_drivers    |-> << <<"RSI of 65">>, <<"Current Drawdown of -5%">>,
                           <<"Sharpe ratio of 0.9">> >>,
     risk_level     |-> risk_level]

\* response.content: text that parses into a FinancialReport, or that does not
Parseable(report) == [parses |-> TRUE, report |-> report]

Unparseable == [parses |-> FALSE, report |-> EmptyDict]

Contents ==
    {Parseable(FinancialReport(r, l)) : r \in ModelRecommendations, l \in ModelRiskLevels}
    \cup {Unparseable}

\* str(e) of a fault of a model call
ModelFaults ==
    {<<"404", " models/gemini-2.0-flash is ", "Not Found">>, <<"Deadline Exceeded">>}

\* what one model call (construct the client, invoke it) does
Answer(content) == [kind |-> "ok", content |-> content, msg |-> << >>]

Fault(msg) == [kind |-> "fault", content |-> Unparseable, msg |-> msg]

NotCalled == [kind |-> "unused", content |-> Unparseable, msg |-> << >>]

CallOutcomes == {Answer(c) : c \in Contents} \cup {Fault(m) : m \in ModelFaults}

\* the environment of one synthesis: GOOGLE_API_KEY set or not, and what the
\* primary and the secondary model do when called
NoLlm == [api_key |-> FALSE, primary |-> NotCalled, secondary |-> NotCalled]

LlmEnvs ==
    {NoLlm}
    \cup {[api_key |-> TRUE, primary |-> p, secondary |-> NotCalled] :
            p \in {Answer(c) : c \in Contents}}
    \cup {[api_key |-> TRUE, primary |-> Fault(m), secondary |-> x] :
            m \in ModelFaults, x \in CallOutcomes}

\* str(model_error).lower()
LowerText(msg) == [i \in 1..Len(msg) |-> Lower(msg[i])]

\* "404" in error_str or "not found" in error_str or "v1beta" in error_str
\*   or "gemini-1.5-flash" in error_str
IsUnavailableSignature(msg) ==
    \E sig \in {"404", "not found", "v1beta", "gemini-1.5-flash"} :
        Contains(LowerText(msg), <<sig>>)

(***************************************************************************)
(* Agent 4: synthesis_node.  Each operator yields the node's result and    *)
(* the model calls made, in order.                                         *)
(***************************************************************************)
Outcome(result, made) == [result |-> result, calls |-> made]

\* offline_result = generate_offline_summary(state); offline_result["llm_used"] = False
OfflineResult(st) ==
    LET r == generate_offline_summary(st)
    IN  IF r.raised THEN r
        ELSE Returned([r.update EXCEPT !["llm_used"] = FALSE])

SynthesisError(st) ==
    LET ticker    == Get(st, "ticker", <<"UNKNOWN">>)
        error_msg == UpstreamErrorMsg(st)
    IN  [recommendation |-> "ERROR",
         risk_level     |-> "Unknown",
         reasoning      |-> <<"Analysis could not be completed: ">> \o error_msg,
         key_drivers    |-> <<error_msg>>,
         final_report   |->
             <<"**Error:** ">> \o error_msg
                 \o <<"\n\nAnalysis could not be completed for ticker '">> \o ticker
                 \o <<"'. Please verify the ticker symbol is correct and try again.">>,
         error          |-> error_msg,
         success        |-> FALSE]

\* mutant: the parsed report is returned without setting llm_used
ParseAndReport_FlagUnset(st, content) ==
    IF ~content.parses THEN OfflineResult(st)
    ELSE LET report_dict == content.report
         IN  Returned([recommendation |-> report_dict.recommendation,
                       reasoning      |-> report_dict.reasoning,
                       key_drivers    |-> report_dict.key_drivers,
                       risk_level     |-> report_dict.risk_level,
                       final_report   |->
                           FinalReport(report_dict.recommendation,
                                       report_dict.risk_level,
                                       report_dict.reasoning,
                                       report_dict.key_drivers)])

\* mutant: the parsed report is returned without its final_report text
ParseAndReport_NoFinalReport(st, content) ==
    IF ~content.parses THEN OfflineResult(st)
    ELSE Returned(Merge(content.report, [llm_used |-> TRUE]))

\* mutant: the parsed report's risk level is replaced by the rule
\* classification of the state's risk metrics
ParseAndReport_RuleRiskLevel(st, content) ==
    IF ~content.parses THEN OfflineResult(st)
    ELSE LET report_dict  == content.report
             risk_metrics == Get(st, "risk_metrics", EmptyDict)
             level ==
                 RiskLevel(Get(risk_metrics, "volatility", Num(0)),
                           Get(risk_metrics, "current_drawdown", Num(0)),
                           Get(risk_metrics, "sharpe_ratio", Num(0)))
         IN  Returned([recommendation |-> report_dict.recommendation,
                       reasoning      |-> report_dict.reasoning,
                       key_drivers    |-> report_dict.key_drivers,
                       risk_level     |-> level,
                       final_report   |->
                           FinalReport(report_dict.recommendation, level,
                                       report_dict.reasoning,
                                       report_dict.key_drivers),
                       llm_used       |-> TRUE])

\* parser.parse(response.content) and the report built from it; a parse error
\* is caught by the outer handler, which returns the offline summary
ParseAndReport(st, content) ==
    IF ~content.parses THEN OfflineResult(st)
    ELSE LET report_dict == content.report
         IN  Returned([recommendation |-> report_dict.recommendation,
                       reasoning      |-> report_dict.reasoning,
                       key_drivers    |-> report_dict.key_drivers,
                       risk_level     |-> report_dict.risk_level,
                       final_report   |->
                           FinalReport(report_dict.recommendation,
                                       report_dict.risk_level,
                                       report_dict.reasoning,
                                       report_dict.key_drivers),
                       llm_used       |-> TRUE])

\* the handler of a primary fault with a not-found signature
RetryAfterUnavailable(st, env) ==
    IF env.secondary.kind = "ok"
    THEN Outcome(ParseAndReport(st, env.secondary.content),
                 <<model_name, fallback_model>>)
    ELSE Outcome(OfflineResult(st), <<model_name, fallback_model>>)

\* mutant: a fault without the not-found signature goes offline without a retry
RetryAfterOtherFault_NoRetry(st, env) == Outcome(OfflineResult(st), <<model_name>>)

\* the handler of any other primary fault
RetryAfterOtherFault(st, env) ==
    IF env.secondary.kind = "ok"
    THEN Outcome(ParseAndReport(st, env.secondary.content),
                 <<model_name, fallback_model>>)
    ELSE Outcome(OfflineResult(st), <<model_name, fallback_model>>)

\* mutant: an unparseable primary response is retried on the secondary model
ModelBackedPath_RetryUnparsed(st, env) ==
    IF env.primary.kind = "ok" /\ env.primary.content.parses
    THEN Outcome(ParseAndReport(st, env.primary.content), <<model_name>>)
    ELSE IF env.primary.kind = "ok"
    THEN RetryAfterOtherFault(st, env)
    ELSE IF IsUnavailableSignature(env.primary.msg)
    THEN RetryAfterUnavailable(st, env)
    ELSE RetryAfterOtherFault(st, env)

ModelBackedPath(st, env) ==
    IF env.primary.kind = "ok"
    THEN Outcome(ParseAndReport(st, env.primary.content), <<model_name>>)
    ELSE IF IsUnavailableSignature(env.primary.msg)
    THEN RetryAfterUnavailable(st, env)
    ELSE RetryAfterOtherFault(st, env)

\* mutant: the API key is not looked at before the model is called
synthesis_node_KeyIgnored(st, env) ==
    IF HasUpstreamError(st)
    THEN Outcome(Returned(SynthesisError(st)), << >>)
    ELSE ModelBackedPath(st, env)

synthesis_node(st, env) ==
    IF HasUpstreamError(st)
    THEN Outcome(Returned(SynthesisError(st)), << >>)
    ELSE IF ~env.api_key
    THEN Outcome(OfflineResult(st), << >>)
    ELSE ModelBackedPath(st, env)

(***************************************************************************)
(* The graph of build_workflow and run_financial_analysis.                 *)
(***************************************************************************)
\* the keys of FinancialState: a node's update reaches the state through one
\* channel per key of the schema
FinancialStateKeys ==
    {"ticker", "historical_data", "start_date", "end_date", "fundamental_metrics",
     "technical_indicators", "risk_metrics", "recommendation", "risk_level",
     "reasoning", "key_drivers", "final_report", "llm_used", "error", "success"}

Channels(upd) == [k \in (DOMAIN upd) \cap FinancialStateKeys |-> upd[k]]

EntryPoint == "data_agent"

\* workflow.add_edge(from, to)
Edge(node) ==
    CASE node = "data_agent" -> "analysis_agent"
      [] node = "analysis_agent" -> "risk_agent"
      [] node = "risk_agent" -> "synthesis_agent"
      [] node = "synthesis_agent" -> "END"

\* datetime.now().strftime("%Y-%m-%d %H:%M:%S")
Clock == {<<"2026-01-05 09:30:00">>, <<"2026-01-05 16:00:00">>}

\* output_data of run_financial_analysis
OutputData(final_state, now) ==
    LET base ==
            [ticker               |-> final_state["ticker"],
             success              |-> Get(final_state, "success", TRUE),
             analysis_date        |-> now,
             data_range           |->
                 [start |-> Get(final_state, "start_date", None),
                  end   |-> Get(final_state, "end_date", None)],
             fundamental_metrics  |-> Get(final_state, "fundamental_metrics", EmptyDict),
             technical_indicators |-> Get(final_state, "technical_indicators", EmptyDict),
             risk_metrics         |-> Get(final_state, "risk_metrics", EmptyDict),
             recommendation       |-> Get(final_state, "recommendation", None),
             risk_level           |-> Get(final_state, "risk_level", None),
             reasoning            |-> Get(final_state, "reasoning", None),
             key_drivers          |-> Get(final_state, "key_drivers", << >>),
             final_report         |-> Get(final_state, "final_report", None),
             llm_used             |-> Get(final_state, "llm_used", FALSE)]
    IN  IF "error" \in DOMAIN final_state /\ final_state["error"] # << >>
        THEN Merge(base, [error |-> final_state["error"]])
        ELSE base

NotFetched == [kind |-> "none", hist |-> NoFrame, text |-> << >>]

NoException == "none"

\* app.invoke({"ticker": ticker}) starts at the entry point with a fresh state
Init ==
    /\ pc = EntryPoint
    /\ state \in {[ticker |-> t] : t \in Tickers}
    /\ ret = EmptyDict
    /\ exc = NoException
    /\ output = EmptyDict
    /\ trace = << >>
    /\ calls = << >>
    /\ fetch = NotFetched
    /\ llm = NoLlm

\* one node runs: its update is merged and the edge followed, or its
\* exception leaves the invocation
RunNode(node, result) ==
    /\ trace' = Append(trace, node)
    /\ IF result.raised
       THEN /\ pc' = "RAISED"
            /\ exc' = result.exc
            /\ UNCHANGED <<state, ret>>
       ELSE /\ pc' = Edge(node)
            /\ state' = Merge(state, Channels(result.update))
            /\ ret' = result.update
            /\ UNCHANGED exc
    /\ UNCHANGED output

DataAgent ==
    /\ pc = "data_agent"
    /\ \E h \in HistoryOutcomes :
        /\ RunNode("data_agent", data_ingestion_node(state, h))
        /\ fetch' = h
    /\ UNCHANGED <<calls, llm>>

AnalysisAgent ==
    /\ pc = "analysis_agent"
    /\ \E i \in InfoOutcomes : RunNode("analysis_agent", analysis_node(state, i))
    /\ UNCHANGED <<calls, fetch, llm>>

RiskAgent ==
    /\ pc = "risk_agent"
    /\ RunNode("risk_agent", risk_node(state))
    /\ UNCHANGED <<calls, fetch, llm>>

SynthesisAgent ==
    /\ pc = "synthesis_agent"
    /\ \E env \in LlmEnvs :
        LET o == synthesis_node(state, env)
        IN  /\ RunNode("synthesis_agent", o.result)
            /\ calls' = calls \o o.calls
            /\ llm' = IF HasUpstreamError(state) THEN llm ELSE env
    /\ UNCHANGED fetch

\* run_financial_analysis builds its record from the final state and returns it
Return ==
    /\ pc = "END"
    /\ \E now \in Clock : output' = OutputData(state, now)
    /\ pc' = "RETURNED"
    /\ UNCHANGED <<state, ret, exc, trace, calls, fetch, llm>>

Next == DataAgent \/ AnalysisAgent \/ RiskAgent \/ SynthesisAgent \/ Return

Spec == Init /\ [][Next]_vars

(***************************************************************************)
(* generate_offline_summary as a function of its input: a second           *)
(* specification that draws the three metric maps from bounded sets and    *)
(* applies the function once.                                              *)
(***************************************************************************)
Pct(n) == (n * Scale) \div 100

TrendInputs == {Str("Bullish"), Str("Bearish"), Str("BULLISH"), None}

RsiInputs == {Num(45 * Scale), Num(70 * Scale), Num(72 * Scale), NaN, Str("N/A"), None}

PeInputs == {Num(18 * Scale), Num(30 * Scale), Num(40 * Scale), Str("N/A")}

SharpeInputs == {Num(Pct(90)), Num(Pct(70)), Num(Pct(50)), Num(-Pct(20)), Str("N/A")}

\* Pct(20) - 1 is the largest volatility below 0.20 the fixed-point values hold
VolatilityInputs ==
    {Num(Pct(18)), Num(Pct(20) - 1), Num(Pct(20)), Num(Pct(30)), Num(Pct(35)),
     Str("N/A")}

DrawdownInputs ==
    {Num(-Pct(5)), Num(-Pct(15)), Num(-Pct(20)), Num(-Pct(35)), Str("N/A")}

\* the dicts holding key k with a value of vals, or not holding it
Optional(k, vals) == {EmptyDict} \cup {[x \in {k} |-> v] : v \in vals}

OfflineInputs ==
    {[ticker |-> <<"AAPL">>]}
    \cup {[ticker               |-> <<"AAPL">>,
           fundamental_metrics  |-> f,
           technical_indicators |-> Merge(tr, rs),
           risk_metrics         |-> Merge(Merge(sh, vo), dd)] :
            f  \in Optional("pe_ratio", PeInputs),
            tr \in Optional("trend", TrendInputs),
            rs \in Optional("rsi_14", RsiInputs),
            sh \in Optional("sharpe_ratio", SharpeInputs),
            vo \in Optional("volatility", VolatilityInputs),
            dd \in Optional("current_drawdown", DrawdownInputs)}

InitOffline ==
    /\ pc = "offline"
    /\ state \in OfflineInputs
    /\ ret = EmptyDict
    /\ exc = NoException
    /\ output = EmptyDict
    /\ trace = << >>
    /\ calls = << >>
    /\ fetch = NotFetched
    /\ llm = NoLlm

OfflineCall ==
    /\ pc = "offline"
    /\ LET r == generate_offline_summary(state)
       IN  IF r.raised
           THEN pc' = "offline_raised" /\ exc' = r.exc /\ UNCHANGED ret
           ELSE pc' = "offline_returned" /\ ret' = r.update /\ UNCHANGED exc
    /\ UNCHANGED <<state, output, trace, calls, fetch, llm>>

NextOffline == OfflineCall

SpecOffline == InitOffline /\ [][NextOffline]_vars

(***************************************************************************)
(* The orchestration variant.  BaseAgent.run and the three agents of       *)
(* MasterOrchestrator.  An agent result is a dict; the enumerations        *)
(* (status, risk_level, overall_sentiment) are plain strings.              *)
(***************************************************************************)
\* most articles the news collaborator returns
MaxNews == 2

\* the words of an article title, or a title that is None
Title(words) == [isNone |-> FALSE, words |-> words]

NoTitle == [isNone |-> TRUE, words |-> << >>]

Titles ==
    {Title(<<"stock", "surge", "strong">>), Title(<<"shares", "crash">>),
     Title(<<"quarterly", "report">>), Title(<<"growth", "miss">>), NoTitle}

\* an article as DataFetcher.get_news builds it (the title is the one field
\* the agents read)
Article(title) == [title |-> title]

NewsLists == UNION {[1..n -> {Article(t) : t \in Titles}] : n \in 0..MaxNews}

\* isoformat() of the instant an agent finishes
Timestamp == <<"2026-01-05T09:30:00">>

\* BaseAgent.__init__ and reset_metrics: the counters of one agent
FreshMetrics ==
    [execution_count |-> 0, success_count |-> 0, total_execution_time |-> Num(0),
     last_execution |-> << >>]

\* mutant: a run whose execute raised is not counted
RunMetrics_CountOnSuccess(m, executed) ==
    IF executed.raised THEN m
    ELSE [m EXCEPT !.execution_count = @ + 1,
                   !.success_count = @ + 1,
                   !.last_execution = Timestamp]

\* the counters after run: execution_count always, the others on success
RunMetrics(m, executed) ==
    IF executed.raised
    THEN [m EXCEPT !.execution_count = @ + 1]
    ELSE [m EXCEPT !.execution_count = @ + 1,
                   !.success_count = @ + 1,
                   !.last_execution = Timestamp]

\* mutant: the success record holds the metadata alone
run_MetadataOnly(agent_name, agent_type, executed) ==
    IF executed.raised
    THEN [agent_name     |-> agent_name,
          agent_type     |-> agent_type,
          status         |-> "error",
          error          |-> executed.exc,
          execution_time |-> Num(0),
          timestamp      |-> Timestamp]
    ELSE [agent_name     |-> agent_name,
          agent_type     |-> agent_type,
          status         |-> "success",
          execution_time |-> Num(0),
          timestamp      |-> Timestamp]

\* BaseAgent.run: the record built from what execute did
run(agent_name, agent_type, executed) ==
    IF executed.raised
    THEN [agent_name     |-> agent_name,
          agent_type     |-> agent_type,
          status         |-> "error",
          error          |-> executed.exc,
          execution_time |-> Num(0),
          timestamp      |-> Timestamp]
    ELSE Merge(executed.update,
               [agent_name     |-> agent_name,
                agent_type     |-> agent_type,
                status         |-> "success",
                execution_time |-> Num(0),
                timestamp      |-> Timestamp])

\* MarketDataAgent._process_price_data on a frame of at least one row whose
\* bars have high = low = close and no volume column
process_price_data(closes) ==
    LET latest   == closes[Len(closes)]
        previous == IF Len(closes) > 1 THEN closes[Len(closes) - 1] ELSE latest
    IN  [current_price  |-> Num(latest * Scale),
         previous_close |-> Num(previous * Scale),
         change_percent |-> Num(MulDiv((latest - previous) * 100 * Scale, 1, previous)),
         volume         |-> Num(0),
         high_52w       |->
             Num(Scale * (CHOOSE c \in {closes[i] : i \in 1..Len(closes)} :
                            \A i \in 1..Len(closes) : closes[i] <= c)),
         low_52w        |-> Num(Scale * SeqMin(closes))]

\* DataFetcher.get_company_info: the company data, or the error record
CompanyInfo(symbol, name) ==
    [symbol |-> symbol, name |-> name, sector |-> "Technology"]

CompanyInfoError(symbol) == [symbol |-> symbol, error |-> <<"info unavailable">>]

\* what the collaborators of the market data agent hand back: the frame of
\* get_stock_data (None also for an empty frame and for a fault), the
\* longName of the info (absent: the symbol stands in; or the lookup faults)
\* and the news
LongNames == {"given", "absent", "fault"}

MarketOutcomes ==
    {[frame |-> f, longName |-> n, news |-> a] :
        f \in {NoFrame} \cup {Frame(cs) : cs \in SeriesOfLen(1) \cup SeriesOfLen(2)},
        n \in LongNames,
        a \in NewsLists}

NoMarket == [frame |-> NoFrame, longName |-> "fault", news |-> << >>]

MarketDataAgent_execute(input_data, m) ==
    LET symbol == input_data["symbol"]
        price_data ==
            IF ~m.frame.isNone /\ m.frame.closes # << >>
            THEN process_price_data(m.frame.closes) ELSE EmptyDict
        company_info ==
            CASE m.longName = "given" -> CompanyInfo(symbol, <<"Apple Inc.">>)
              [] m.longName = "absent" -> CompanyInfo(symbol, symbol)
              [] m.longName = "fault" -> CompanyInfoError(symbol)
    IN  Returned([symbol       |-> symbol,
                  price_data   |-> price_data,
                  company_info |-> company_info,
                  news         |-> SubSeq(m.news, 1, Min(Len(m.news), 10)),
                  confidence   |->
                      IF DOMAIN price_data # {} THEN Num((80 * Scale) \div 100)
                      ELSE Num((30 * Scale) \div 100)])

\* SentimentAgent._load_lexicon
sentiment_lexicon ==
    [bullish |-> 80, buy |-> 60, strong |-> 50, growth |-> 40, profit |-> 50,
     gain |-> 40, upgrade |-> 70, beat |-> 60, surge |-> 70, rally |-> 60,
     bearish |-> -80, sell |-> -60, weak |-> -50, decline |-> -40, loss |-> -50,
     drop |-> -40, downgrade |-> -70, miss |-> -60, plunge |-> -70, crash |-> -80]

\* SentimentAgent._analyze_text on the words of a text
analyze_text(words) ==
    LET known  == SelectSeq(words, LAMBDA w : w \in DOMAIN sentiment_lexicon)
        scores == [i \in 1..Len(known) |-> Pct(sentiment_lexicon[known[i]])]
    IN  IF scores # << >> THEN SeqMean(scores) ELSE 0

\* SentimentAgent._classify_sentiment
classify_sentiment(score) ==
    IF score >= Pct(30) THEN "positive"
    ELSE IF score <= -Pct(30) THEN "negative"
    ELSE "neutral"

\* the number of entries of a sequence that satisfy a test
Count(xs, Test(_)) == Cardinality({i \in 1..Len(xs) : Test(xs[i])})

\* SentimentAgent._get_distribution
get_distribution(sentiments) ==
    [positive |-> Num(Scale * Count(sentiments, LAMBDA x : x > Pct(10))),
     neutral  |-> Num(Scale * Count(sentiments, LAMBDA x : -Pct(10) <= x /\ x <= Pct(10))),
     negative |-> Num(Scale * Count(sentiments, LAMBDA x : x < -Pct(10)))]

\* SentimentAgent.execute; a title that is None cannot be concatenated
SentimentAgent_execute(input_data) ==
    LET news_articles == Get(input_data, "news", << >>)
    IN  IF news_articles = << >>
        THEN Returned([overall_sentiment |-> "neutral",
                       sentiment_score   |-> Num(0),
                       confidence        |-> Num(0),
                       articles_analyzed |-> Num(0)])
        ELSE IF \E i \in 1..Len(news_articles) : news_articles[i].title.isNone
        THEN Raised(<<"unsupported operand type(s) for +: 'NoneType' and 'str'">>)
        ELSE
        LET sentiments ==
                [i \in 1..Len(news_articles) |->
                    analyze_text(news_articles[i].title.words)]
            avg_sentiment == SeqMean(sentiments)
        IN  Returned([overall_sentiment |-> classify_sentiment(avg_sentiment),
                      sentiment_score   |-> Num(avg_sentiment),
                      confidence        |->
                          Num(Min(MulDiv(Len(sentiments) * Scale, 1, 10), Scale)),
                      articles_analyzed |-> Num(Scale * Len(sentiments)),
                      distribution      |-> get_distribution(sentiments)])

\* RiskAgent._assess_risk_level
assess_risk_level(volatility) ==
    IF Gt(volatility, Num(Pct(40))) THEN "High"
    ELSE IF Gt(volatility, Num(Pct(25))) THEN "Medium"
    ELSE "Low"

\* RiskAgent._estimate_var: -1.65 * volatility / np.sqrt(252)
estimate_var(volatility) == Num(FDiv(FMul(-Pct(165), volatility.v), SQRT_252))

\* RiskAgent.execute
RiskAgent_execute(input_data) ==
    LET price_data == Get(input_data, "price_data", EmptyDict)
    IN  IF DOMAIN price_data = {}
        THEN Returned([risk_level |-> "Unknown", confidence |-> Num(0)])
        ELSE
        LET volatility == Get(price_data, "volatility", Num(0))
        IN  Returned([volatility            |-> volatility,
                      risk_level            |-> assess_risk_level(volatility),
                      var_95                |-> estimate_var(volatility),
                      max_drawdown_estimate |-> Num(-Abs(volatility.v * 2)),
                      confidence            |-> Num(Pct(70))])

(***************************************************************************)
(* StateManager: the workflow records of the orchestrator.                 *)
(***************************************************************************)
\* StateManager.__init__
NoWorkflows == [workflows |-> EmptyDict, current_workflow_id |-> << >>]

\* StateManager.create_workflow
create_workflow(sm, workflow_id, agents) ==
    [workflows |->
        Merge(sm.workflows,
              [w \in {workflow_id} |->
                  [id         |-> workflow_id,
                   agents     |-> [a \in agents |-> "pending"],
                   results    |-> EmptyDict,
                   errors     |-> EmptyDict,
                   start_time |-> Timestamp,
                   end_time   |-> << >>]]),
     current_workflow_id |-> workflow_id]

\* StateManager.save_agent_result
save_agent_result(sm, agent_name, result) ==
    IF sm.current_workflow_id = << >> THEN sm
    ELSE [sm EXCEPT
            !.workflows[sm.current_workflow_id].results =
                Merge(@, [a \in {agent_name} |-> result]),
            !.workflows[sm.current_workflow_id].agents =
                Merge(@, [a \in {agent_name} |-> "completed"])]

\* StateManager.complete_workflow()
complete_workflow(sm) ==
    LET wf_id == sm.current_workflow_id
    IN  IF wf_id # << >> /\ wf_id \in DOMAIN sm.workflows
        THEN [sm EXCEPT !.workflows[wf_id].end_time = Timestamp]
        ELSE sm

\* mutant: the failure leaves the workflow record as it was
fail_workflow_Unmarked(sm, error) == sm

\* StateManager.fail_workflow(error)
fail_workflow(sm, error) ==
    LET wf_id == sm.current_workflow_id
    IN  IF wf_id # << >> /\ wf_id \in DOMAIN sm.workflows
        THEN [sm EXCEPT
                !.workflows[wf_id] =
                    Merge(@, [end_time |-> Timestamp, error |-> error])]
        ELSE sm

(***************************************************************************)
(* MasterOrchestrator: synthesis, recommendation and confidence.           *)
(***************************************************************************)
\* MasterOrchestrator._synthesize_results; a string field that is None holds
\* "None"
synthesize_results(agent_results) ==
    LET market_data    == Get(agent_results, "market_data", EmptyDict)
        price_data     == Get(market_data, "price_data", EmptyDict)
        sentiment_data == Get(agent_results, "sentiment", EmptyDict)
        risk_data      == Get(agent_results, "risk", EmptyDict)
    IN  [current_price |-> Get(price_data, "current_price", None),
         price_change  |-> Get(price_data, "change_percent", None),
         sentiment     |-> Get(sentiment_data, "overall_sentiment", "None"),
         risk_level    |-> Get(risk_data, "risk_level", "None"),
         volatility    |-> Get(risk_data, "volatility", None)]

\* MasterOrchestrator._generate_recommendation
generate_recommendation(agent_results) ==
    LET sentiment ==
            Get(Get(agent_results, "sentiment", EmptyDict), "overall_sentiment", "neutral")
        risk_level ==
            Get(Get(agent_results, "risk", EmptyDict), "risk_level", "Medium")
    IN  IF sentiment = "positive" /\ risk_level = "Low" THEN "buy"
        ELSE IF sentiment = "negative" \/ risk_level = "High" THEN "sell"
        ELSE "hold"

baseline == (40 * Scale) \div 100

weights == [market |-> Pct(40), sentiment |-> Pct(35), risk |-> Pct(25)]

\* a subscript of a key the dict does not hold
KeyError(k) == Raised(<<"'", k, "'">>)

\* the market data score of _calculate_confidence, or the KeyError it raises
MarketScore(md) ==
    IF Get(md, "status", "None") # "success" THEN Returned(0)
    ELSE IF "price_data" \notin DOMAIN md THEN KeyError("price_data")
    ELSE IF "company_info" \notin DOMAIN md THEN KeyError("company_info")
    ELSE
    LET price      == IF "current_price" \in DOMAIN md["price_data"] THEN Pct(30) ELSE 0
        change_pct ==
            MulDiv(Abs(Get(md["price_data"], "change_percent", Num(0)).v), 1, 10)
        name       == Get(md["company_info"], "name", << >>)
        named      == IF name # << >> THEN Pct(20) ELSE 0
    IN  Returned(Min(price + Min(change_pct, Pct(20)) + named, Scale))

\* the sentiment score of _calculate_confidence, or the KeyError it raises
SentimentScore(sa) ==
    IF Get(sa, "status", "None") # "success" THEN Returned(0)
    ELSE IF "distribution" \notin DOMAIN sa THEN KeyError("distribution")
    ELSE
    LET pos   == Get(sa["distribution"], "positive", Num(0)).v
        neg   == Get(sa["distribution"], "negative", Num(0)).v
        total == Max(Get(sa, "articles_analyzed", Num(Scale)).v, Scale)
        raw   == FDiv(pos - neg, total)
    IN  Returned((raw + Scale) \div 2)

\* the risk score of _calculate_confidence
RiskScore(ra) ==
    IF Get(ra, "status", "None") # "success" THEN Returned(0)
    ELSE LET level == Get(ra, "risk_level", "Medium")
         IN  Returned(CASE level = "Low" -> Scale
                        [] level = "Medium" -> Pct(60)
                        [] level = "High" -> Pct(30)
                        [] OTHER -> Pct(60))

\* conf = baseline + conf * (1.0 - baseline), clamped to [baseline, 1.0] and
\* rounded to two decimals
Rescale(conf) ==
    RoundTo(Min(Max(baseline + FMul(conf, Scale - baseline), baseline), Scale),
            Scale \div 100)

\* MasterOrchestrator._calculate_confidence
calculate_confidence(agent_results) ==
    LET market    == MarketScore(Get(agent_results, "market_data", EmptyDict))
        sentiment == SentimentScore(Get(agent_results, "sentiment", EmptyDict))
        risk      == RiskScore(Get(agent_results, "risk", EmptyDict))
    IN  IF market.raised THEN market
        ELSE IF sentiment.raised THEN sentiment
        ELSE IF risk.raised THEN risk
        ELSE Returned(Num(Rescale(FMul(market.update, weights.market)
                                  + FMul(sentiment.update, weights.sentiment)
                                  + FMul(risk.update, weights.risk))))

(***************************************************************************)
(* MasterOrchestrator.analyze_stock, one call on a fresh orchestrator.     *)
(* state holds the orchestrator (its state manager and the counters of its *)
(* agents), ret the result dict under construction, output the record      *)
(* returned, fetch what the market collaborators did, llm whether the      *)
(* language-model manager is available.                                    *)
(***************************************************************************)
AgentNames == {"market_data", "sentiment", "risk"}

\* MasterOrchestrator.__init__
FreshOrchestrator ==
    [state_manager |-> NoWorkflows, agents |-> [a \in AgentNames |-> FreshMetrics]]

\* llm_manager.is_available(), and the text generate hands back
LlmManagers == {[available |-> a, text |-> <<"Summary.">>] : a \in BOOLEAN}

InitOrchestrator ==
    /\ pc = "create_workflow"
    /\ state = FreshOrchestrator
    /\ ret = EmptyDict
    /\ exc = NoException
    /\ output = EmptyDict
    /\ trace = << >>
    /\ calls = << >>
    /\ fetch = NoMarket
    /\ llm \in LlmManagers

\* the call begins: the workflow is created and the result dict set up
CreateWorkflow ==
    /\ pc = "create_workflow"
    /\ \E symbol \in Tickers :
        LET analysis_type == "comprehensive"
            workflow_id   == symbol \o <<"_", analysis_type>>
        IN  /\ state' = [state EXCEPT !.state_manager =
                            create_workflow(@, workflow_id, AgentNames)]
            /\ ret' = [symbol           |-> symbol,
                       period           |-> "1y",
                       analysis_type    |-> analysis_type,
                       agent_results    |-> EmptyDict,
                       overall_analysis |-> EmptyDict,
                       recommendation   |-> "hold",
                       confidence       |-> Num(0)]
    /\ pc' = "market_data"
    /\ UNCHANGED <<exc, output, trace, calls, fetch, llm>>

\* one agent has run: its result enters the result dict and the workflow
AgentStep(name, agent_name, executed, next) ==
    LET agent_result == run(agent_name, name, executed)
    IN  /\ ret' = [ret EXCEPT !.agent_results =
                      Merge(@, [a \in {name} |-> agent_result])]
        /\ state' = [state EXCEPT
                        !.agents[name] = RunMetrics(@, executed),
                        !.state_manager = save_agent_result(@, name, agent_result)]
        /\ trace' = Append(trace, name)
        /\ pc' = next
        /\ UNCHANGED <<exc, output, calls, llm>>

RunMarketData ==
    /\ pc = "market_data"
    /\ \E m \in MarketOutcomes :
        /\ AgentStep("market_data", "Market Data Agent",
                     MarketDataAgent_execute(
                         [symbol |-> ret.symbol, period |-> ret.period], m),
                     "sentiment")
        /\ fetch' = m

RunSentiment ==
    /\ pc = "sentiment"
    /\ AgentStep("sentiment", "Sentiment Agent",
                 SentimentAgent_execute(
                     [news |-> Get(ret.agent_results["market_data"], "news", << >>)]),
                 "risk")
    /\ UNCHANGED fetch

RunRisk ==
    /\ pc = "risk"
    /\ AgentStep("risk", "Risk Agent",
                 RiskAgent_execute(
                     [price_data |->
                         Get(ret.agent_results["market_data"], "price_data", EmptyDict)]),
                 "synthesize")
    /\ UNCHANGED fetch

\* the results are synthesized and the record returned; an exception is
\* caught by the handler of analyze_stock
Synthesize ==
    /\ pc = "synthesize"
    /\ LET overall    == synthesize_results(ret.agent_results)
           recommend  == generate_recommendation(ret.agent_results)
           confidence == calculate_confidence(ret.agent_results)
           partial    == [ret EXCEPT !.overall_analysis = overall,
                                     !.recommendation = recommend]
           result     ==
               IF confidence.raised
               THEN Merge(partial, [error |-> confidence.exc])
               ELSE LET scored == [partial EXCEPT !.confidence = confidence.update]
                    IN  IF llm.available
                        THEN Merge(scored, [llm_summary |-> llm.text])
                        ELSE scored
       IN  /\ ret' = result
           /\ output' = result
           /\ state' = [state EXCEPT !.state_manager =
                           IF confidence.raised
                           THEN fail_workflow(@, confidence.exc)
                           ELSE complete_workflow(@)]
           /\ calls' = IF ~confidence.raised /\ llm.available
                       THEN Append(calls, "generate") ELSE calls
    /\ pc' = "orch_returned"
    /\ UNCHANGED <<exc, trace, fetch, llm>>

NextOrchestrator ==
    CreateWorkflow \/ RunMarketData \/ RunSentiment \/ RunRisk \/ Synthesize

SpecOrchestrator == InitOrchestrator /\ [][NextOrchestrator]_vars

(***************************************************************************)
(* Two invocations of run_financial_analysis running interleaved.  Every   *)
(* variable holds one value per invocation; a step is one node of one      *)
(* invocation's graph run, or its return.  fetch records, per invocation,  *)
(* what the price-data, company-info and clock collaborators did.          *)
(***************************************************************************)
Invocations == {1, 2}

\* the collaborator responses of the interleaved runs
PairHistories ==
    {[kind |-> "frame", hist |-> Frame(<<100, 102, 98>>), text |-> << >>],
     [kind |-> "frame", hist |-> Frame(<<98, 102>>), text |-> << >>],
     [kind |-> "frame", hist |-> Frame(<< >>), text |-> << >>],
     [kind |-> "fault", hist |-> NoFrame, text |-> <<"Connection timed out">>]}

PairInfos ==
    {[kind |-> "dict", info |-> FullInfo(Num(18 * Scale))],
     [kind |-> "dict", info |-> EmptyDict],
     [kind |-> "fault", info |-> EmptyDict]}

PairLlmEnvs ==
    {NoLlm,
     [api_key |-> TRUE, primary |-> Answer(Parseable(FinancialReport("SELL", "High"))),
      secondary |-> NotCalled],
     [api_key |-> TRUE, primary |-> Fault(<<"Deadline Exceeded">>),
      secondary |-> Answer(Unparseable)]}

\* the identifier run_financial_analysis was called with, and no response yet
NoResponses(ticker) ==
    [ticker |-> ticker, history |-> NotFetched, info |-> "none", now |-> << >>]

\* mutant: the graph runs work on one state kept at module level
StateOf_Shared(states, i) == states[1]

\* the graph run of invocation i works on the state app.invoke made for it
StateOf(states, i) == states[i]

\* the invocation as one record
Invocation(i) ==
    [pc |-> pc[i], state |-> StateOf(state, i), ret |-> ret[i], exc |-> exc[i],
     trace |-> trace[i], calls |-> calls[i]]

\* one node of a graph run: the update is merged and the edge followed, or
\* the exception leaves the invocation
Advance(c, node, result, made) ==
    IF result.raised
    THEN [c EXCEPT !.pc = "RAISED", !.exc = result.exc,
                   !.trace = Append(@, node), !.calls = @ \o made]
    ELSE [c EXCEPT !.pc = Edge(node),
                   !.state = Merge(@, Channels(result.update)),
                   !.ret = result.update,
                   !.trace = Append(@, node), !.calls = @ \o made]

\* invocation i becomes c; the other invocation keeps everything
Becomes(i, c) ==
    /\ pc' = [pc EXCEPT ![i] = c.pc]
    /\ state' = [state EXCEPT ![i] = c.state]
    /\ ret' = [ret EXCEPT ![i] = c.ret]
    /\ exc' = [exc EXCEPT ![i] = c.exc]
    /\ trace' = [trace EXCEPT ![i] = c.trace]
    /\ calls' = [calls EXCEPT ![i] = c.calls]

InitPair ==
    /\ pc = [i \in Invocations |-> EntryPoint]
    /\ fetch \in {[i \in Invocations |-> NoResponses(t[i])] : t \in [Invocations -> Tickers]}
    /\ state = [i \in Invocations |-> [ticker |-> fetch[i].ticker]]
    /\ ret = [i \in Invocations |-> EmptyDict]
    /\ exc = [i \in Invocations |-> NoException]
    /\ output = [i \in Invocations |-> EmptyDict]
    /\ trace = [i \in Invocations |-> << >>]
    /\ calls = [i \in Invocations |-> << >>]
    /\ llm = [i \in Invocations |-> NoLlm]

PairDataAgent(i) ==
    /\ pc[i] = "data_agent"
    /\ \E h \in PairHistories :
        /\ Becomes(i, Advance(Invocation(i), "data_agent",
                              data_ingestion_node(StateOf(state, i), h), << >>))
        /\ fetch' = [fetch EXCEPT ![i].history = h]
    /\ UNCHANGED <<output, llm>>

PairAnalysisAgent(i) ==
    /\ pc[i] = "analysis_agent"
    /\ \E inf \in PairInfos :
        /\ Becomes(i, Advance(Invocation(i), "analysis_agent",
                              analysis_node(StateOf(state, i), inf), << >>))
        /\ fetch' = [fetch EXCEPT ![i].info = inf]
    /\ UNCHANGED <<output, llm>>

PairRiskAgent(i) ==
    /\ pc[i] = "risk_agent"
    /\ Becomes(i, Advance(Invocation(i), "risk_agent",
                          risk_node(StateOf(state, i)), << >>))
    /\ UNCHANGED <<output, fetch, llm>>

PairSynthesisAgent(i) ==
    /\ pc[i] = "synthesis_agent"
    /\ \E env \in PairLlmEnvs :
        LET o == synthesis_node(StateOf(state, i), env)
        IN  /\ Becomes(i, Advance(Invocation(i), "synthesis_agent", o.result, o.calls))
            /\ llm' = [llm EXCEPT ![i] =
                          IF HasUpstreamError(StateOf(state, i)) THEN @ ELSE env]
    /\ UNCHANGED <<output, fetch>>

PairReturn(i) ==
    /\ pc[i] = "END"
    /\ \E now \in Clock :
        /\ output' = [output EXCEPT ![i] = OutputData(StateOf(state, i), now)]
        /\ fetch' = [fetch EXCEPT ![i].now = now]
    /\ pc' = [pc EXCEPT ![i] = "RETURNED"]
    /\ UNCHANGED <<state, ret, exc, trace, calls, llm>>

NextPair ==
    \E i \in Invocations :
        \/ PairDataAgent(i)
        \/ PairAnalysisAgent(i)
        \/ PairRiskAgent(i)
        \/ PairSynthesisAgent(i)
        \/ PairReturn(i)

SpecPair == InitPair /\ [][NextPair]_vars

(***************************************************************************)
(* One agent under a sequence of run and reset_metrics calls.  The agent   *)
(* is the sentiment agent, whose execute returns or raises depending on    *)
(* the news it is given.  state holds the agent's counters, ret the record *)
(* the last run returned, fetch the input of the last run, and trace what  *)
(* each call did: "returned" or "raised" for a run by what execute did,    *)
(* "reset" for reset_metrics.                                              *)
(***************************************************************************)
\* most calls made on the agent
MaxCalls == 3

NoInput == [news |-> << >>]

InitAgent ==
    /\ pc = "agent"
    /\ state = FreshMetrics
    /\ ret = EmptyDict
    /\ exc = NoException
    /\ output = EmptyDict
    /\ trace = << >>
    /\ calls = << >>
    /\ fetch = NoInput
    /\ llm = NoLlm

\* agent.run(input_data)
AgentRun ==
    /\ Len(trace) < MaxCalls
    /\ \E news \in NewsLists :
        LET input_data == [news |-> news]
            executed   == SentimentAgent_execute(input_data)
        IN  /\ state' = RunMetrics(state, executed)
            /\ ret' = run("Sentiment Agent", "sentiment", executed)
            /\ fetch' = input_data
            /\ trace' = Append(trace, IF executed.raised THEN "raised" ELSE "returned")
    /\ UNCHANGED <<pc, exc, output, calls, llm>>

\* agent.reset_metrics()
AgentReset ==
    /\ Len(trace) < MaxCalls
    /\ state' = FreshMetrics
    /\ trace' = Append(trace, "reset")
    /\ UNCHANGED <<pc, ret, exc, output, calls, fetch, llm>>

NextAgent == AgentRun \/ AgentReset

SpecAgent == InitAgent /\ [][NextAgent]_vars

(***************************************************************************)
(* Two analyze_stock calls running interleaved on the one MasterOrchestrator *)
(* of the routes module.  state is the orchestrator both calls work on;    *)
(* pc, ret, output and fetch hold one value per call; a step is one        *)
(* statement group of one call: the creation of the workflow, one agent    *)
(* with the saving of its result, or the synthesis with the closing of the *)
(* workflow.  trace records, for every step, the call that took it and the *)
(* workflow identifier the state manager wrote under.                      *)
(***************************************************************************)
\* what the market collaborators hand back to the interleaved calls
SharedMarkets ==
    {[frame |-> Frame(<<100, 102>>), longName |-> "given",
      news |-> <<Article(Title(<<"stock", "surge", "strong">>))>>],
     [frame |-> NoFrame, longName |-> "fault", news |-> <<Article(NoTitle)>>]}

\* the order of the statements of analyze_stock
StepAfter(step) ==
    CASE step = "create_workflow" -> "market_data"
      [] step = "market_data" -> "sentiment"
      [] step = "sentiment" -> "risk"
      [] step = "risk" -> "synthesize"
      [] step = "synthesize" -> "orch_returned"

\* what execute of the agent does for the call
SharedExecute(name, r, m) ==
    CASE name = "market_data" ->
            MarketDataAgent_execute([symbol |-> r.symbol, period |-> r.period], m)
      [] name = "sentiment" ->
            SentimentAgent_execute(
                [news |-> Get(r.agent_results["market_data"], "news", << >>)])
      [] name = "risk" ->
            RiskAgent_execute(
                [price_data |->
                    Get(r.agent_results["market_data"], "price_data", EmptyDict)])

\* the display name of the agent
SharedAgentName(name) ==
    CASE name = "market_data" -> "Market Data Agent"
      [] name = "sentiment" -> "Sentiment Agent"
      [] name = "risk" -> "Risk Agent"

InitShared ==
    /\ pc = [i \in Invocations |-> "create_workflow"]
    /\ state = FreshOrchestrator
    /\ ret = [i \in Invocations |-> EmptyDict]
    /\ exc = NoException
    /\ output = [i \in Invocations |-> EmptyDict]
    /\ trace = << >>
    /\ calls = << >>
    /\ fetch = [i \in Invocations |-> NoMarket]
    /\ llm \in LlmManagers

\* call i begins: the workflow is created and the result dict set up
SharedCreateWorkflow(i) ==
    /\ pc[i] = "create_workflow"
    /\ \E symbol \in Tickers :
        LET analysis_type == "comprehensive"
            workflow_id   == symbol \o <<"_", analysis_type>>
        IN  /\ state' = [state EXCEPT !.state_manager =
                            create_workflow(@, workflow_id, AgentNames)]
            /\ ret' = [ret EXCEPT ![i] =
                          [symbol           |-> symbol,
                           period           |-> "1y",
                           analysis_type    |-> analysis_type,
                           agent_results    |-> EmptyDict,
                           overall_analysis |-> EmptyDict,
                           recommendation   |-> "hold",
                           confidence       |-> Num(0)]]
            /\ trace' = Append(trace, [call |-> i, step |-> "create_workflow",
                                       into |-> workflow_id])
    /\ pc' = [pc EXCEPT ![i] = StepAfter("create_workflow")]
    /\ UNCHANGED <<exc, output, calls, fetch, llm>>

\* one agent of call i has run: its result enters the result dict of the
\* call and the workflow the state manager holds as current
SharedAgentStep(i) ==
    /\ pc[i] \in AgentNames
    /\ \E m \in IF pc[i] = "market_data" THEN SharedMarkets ELSE {fetch[i]} :
        LET name         == pc[i]
            executed     == SharedExecute(name, ret[i], m)
            agent_result == run(SharedAgentName(name), name, executed)
        IN  /\ ret' = [ret EXCEPT ![i].agent_results =
                          Merge(@, [a \in {name} |-> agent_result])]
            /\ state' = [state EXCEPT
                            !.agents[name] = RunMetrics(@, executed),
                            !.state_manager = save_agent_result(@, name, agent_result)]
            /\ trace' = Append(trace, [call |-> i, step |-> name,
                                       into |-> state.state_manager.current_workflow_id])
            /\ fetch' = [fetch EXCEPT ![i] = m]
    /\ pc' = [pc EXCEPT ![i] = StepAfter(pc[i])]
    /\ UNCHANGED <<exc, output, calls, llm>>

\* the results of call i are synthesized, the current workflow closed and
\* the record returned
SharedSynthesize(i) ==
    /\ pc[i] = "synthesize"
    /\ LET overall    == synthesize_results(ret[i].agent_results)
           recommend  == generate_recommendation(ret[i].agent_results)
           confidence == calculate_confidence(ret[i].agent_results)
           partial    == [ret[i] EXCEPT !.overall_analysis = overall,
                                        !.recommendation = recommend]
           result     ==
               IF confidence.raised
               THEN Merge(partial, [error |-> confidence.exc])
               ELSE LET scored == [partial EXCEPT !.confidence = confidence.update]
                    IN  IF llm.available
                        THEN Merge(scored, [llm_summary |-> llm.text])
                        ELSE scored
       IN  /\ ret' = [ret EXCEPT ![i] = result]
           /\ output' = [output EXCEPT ![i] = result]
           /\ state' = [state EXCEPT !.state_manager =
                           IF confidence.raised
                           THEN fail_workflow(@, confidence.exc)
                           ELSE complete_workflow(@)]
           /\ calls' = IF ~confidence.raised /\ llm.available
                       THEN Append(calls, "generate") ELSE calls
           /\ trace' = Append(trace, [call |-> i, step |-> "synthesize",
                                      into |-> state.state_manager.current_workflow_id])
    /\ pc' = [pc EXCEPT ![i] = StepAfter("synthesize")]
    /\ UNCHANGED <<exc, fetch, llm>>

NextShared ==
    \E i \in Invocations :
        \/ SharedCreateWorkflow(i)
        \/ SharedAgentStep(i)
        \/ SharedSynthesize(i)

SpecShared == InitShared /\ [][NextShared]_vars

(***************************************************************************)
(* The HTTP endpoint POST /analyze of fis_api.  pc is "request" until the  *)
(* handler has answered; fetch holds the ticker of the request and what    *)
(* the collaborators of the pipeline handed back, ret what                 *)
(* run_financial_analysis did (nothing when it was not called), output the *)
(* HTTP response.                                                          *)
(***************************************************************************)
\* the ticker field of the request body
RequestTickers == {<<"aapl">>, <<" ", "ZZZZ", " ">>, << >>, <<" ">>}

\* str.upper()
Upper(s) ==
    CASE s = "aapl" -> "AAPL"
      [] s = "zzzz" -> "ZZZZ"
      [] OTHER -> s

\* str.strip(): white space leaves both ends
RECURSIVE Strip(_)
Strip(text) ==
    IF text = << >> THEN text
    ELSE IF Head(text) = " " THEN Strip(Tail(text))
    ELSE IF text[Len(text)] = " " THEN Strip(SubSeq(text, 1, Len(text) - 1))
    ELSE text

\* run_financial_analysis as one call: the graph run, then the record; an
\* exception that leaves a node leaves the call
run_financial_analysis(r, env) ==
    LET s0 == [ticker |-> r.ticker]
        s1 == Merge(s0, Channels(data_ingestion_node(s0, r.history).update))
        analysis == analysis_node(s1, r.info)
    IN  IF analysis.raised THEN analysis
        ELSE LET s2 == Merge(s1, Channels(analysis.update))
                 s3 == Merge(s2, Channels(risk_node(s2).update))
                 synthesis == synthesis_node(s3, env).result
             IN  IF synthesis.raised THEN synthesis
                 ELSE Returned(OutputData(Merge(s3, Channels(synthesis.update)), r.now))

\* raise HTTPException(status_code, detail), as the framework answers it
HTTPException(status_code, detail) == [status_code |-> status_code, detail |-> detail]

\* str(e) of an HTTPException: "<status_code>: <detail>" where the framework
\* defines __str__, the empty string where it does not
HTTPExceptionTexts(e) == {<<ToString(e.status_code), ": ">> \o e.detail, << >>}

\* str(e) of an exception that left the pipeline
PipelineFaultText(e) == <<e>>

\* the handler from the call of the pipeline on: the responses it can give
\* for what run_financial_analysis did
AnalyzeResponses(ticker, called) ==
    IF called.raised
    THEN {HTTPException(500, PipelineFaultText(called.exc))}
    ELSE LET result == called.update
         IN  IF ~Get(result, "success", TRUE)
             THEN \* the HTTPException raised in the try block is caught by
                  \* except Exception and raised again with status 500
                  LET not_found ==
                          HTTPException(404,
                              Get(result, "error",
                                  <<"No data found for ticker '">> \o ticker \o <<"'">>))
                  IN  {HTTPException(500, t) : t \in HTTPExceptionTexts(not_found)}
             ELSE {[status_code |-> 200, body |-> result]}

NoRequest == [request |-> << >>, ticker |-> << >>, history |-> NotFetched,
              info |-> "none", now |-> << >>]

InitApi ==
    /\ pc = "request"
    /\ fetch \in {[NoRequest EXCEPT !.request = t] : t \in RequestTickers}
    /\ state = EmptyDict
    /\ ret = EmptyDict
    /\ exc = NoException
    /\ output = EmptyDict
    /\ trace = << >>
    /\ calls = << >>
    /\ llm = NoLlm

\* the ticker is empty: 400, and the pipeline is not called
ApiRejectEmpty ==
    /\ pc = "request"
    /\ Strip([i \in 1..Len(fetch.request) |-> Upper(fetch.request[i])]) = << >>
    /\ output' = HTTPException(400, <<"Ticker symbol cannot be empty">>)
    /\ pc' = "responded"
    /\ UNCHANGED <<state, ret, exc, trace, calls, fetch, llm>>

\* the pipeline is called and its outcome answered
ApiAnalyze ==
    /\ pc = "request"
    /\ LET ticker == Strip([i \in 1..Len(fetch.request) |-> Upper(fetch.request[i])])
       IN  /\ ticker # << >>
           /\ \E h \in PairHistories, inf \in PairInfos, env \in PairLlmEnvs, now \in Clock :
                \E r \in {[fetch EXCEPT !.ticker = ticker, !.history = h,
                                       !.info = inf, !.now = now]} :
                \E called \in {run_financial_analysis(r, env)} :
                    /\ fetch' = r
                    /\ llm' = env
                    /\ ret' = called
                    /\ trace' = <<"run_financial_analysis">>
                    /\ output' \in AnalyzeResponses(ticker, called)
    /\ pc' = "responded"
    /\ UNCHANGED <<state, exc, calls>>

NextApi == ApiRejectEmpty \/ ApiAnalyze

SpecApi == InitApi /\ [][NextApi]_vars

(***************************************************************************)
(* Vocabulary of the properties.                                           *)
(***************************************************************************)
IsPrefix(p, q) == Len(p) <= Len(q) /\ \A i \in 1..Len(p) : p[i] = q[i]

StageOrder == <<"data_agent", "analysis_agent", "risk_agent", "synthesis_agent">>

\* the price-data collaborator raised, or handed back an absent or empty series
FetchFailed ==
    \/ fetch.kind = "fault"
    \/ fetch.kind = "frame" /\ (fetch.hist.isNone \/ fetch.hist.closes = << >>)

FetchSucceeded ==
    fetch.kind = "frame" /\ ~fetch.hist.isNone /\ fetch.hist.closes # << >>

SynthesisDone == pc \in {"END", "RETURNED"}

\* a model call succeeded and its response parsed
ParsedAnswer ==
    /\ llm.api_key
    /\ \/ llm.primary.kind = "ok" /\ llm.primary.content.parses
       \/ llm.primary.kind = "fault" /\ llm.secondary.kind = "ok"
            /\ llm.secondary.content.parses

\* a model call succeeded and its response did not parse
UnparsedAnswer ==
    /\ llm.api_key
    /\ \/ llm.primary.kind = "ok" /\ ~llm.primary.content.parses
       \/ llm.primary.kind = "fault" /\ llm.secondary.kind = "ok"
            /\ ~llm.secondary.content.parses

ReportFields ==
    {"recommendation", "risk_level", "reasoning", "key_drivers", "final_report",
     "llm_used"}

\* the record generate_offline_summary builds from the state's metric maps
OfflineRecord == generate_offline_summary(state).update

(***************************************************************************)
(* C1. At the end of a pipeline run the recommendation is ERROR if and     *)
(* only if the success flag is False, whatever the collaborators did.      *)
(* Fails: a model response that parses with recommendation "ERROR" is      *)
(* stored unchecked while success stays True.                              *)
(***************************************************************************)
C1_ErrorIffNotSucceeded ==
    pc = "RETURNED" => (output["recommendation"] = "ERROR" <=> ~output["success"])

(***************************************************************************)
(* C2. Once the ingestion stage has set an error message and success       *)
(* False, every later step leaves the error message as it is and success   *)
(* False, and the returned record carries that same message.               *)
(***************************************************************************)
C2_ErrorPreserved ==
    [][ (/\ pc # "data_agent"
         /\ "error" \in DOMAIN state
         /\ state["error"] # << >>
         /\ ~state["success"])
        => (/\ "error" \in DOMAIN state'
            /\ state'["error"] = state["error"]
            /\ ~state'["success"]
            /\ pc' # "RAISED"
            /\ (pc' = "RETURNED" =>
                    /\ "error" \in DOMAIN output'
                    /\ output'["error"] = state["error"]
                    /\ ~output'["success"])) ]_vars

C2_Witness ==
    /\ pc = "RETURNED"
    /\ trace = StageOrder
    /\ fetch.kind = "fault"
    /\ output["error"] = FetchErrorMsg(output["ticker"], fetch.text)

(***************************************************************************)
(* C3. When the price-data collaborator raises or returns an absent or     *)
(* empty series, no exception leaves run_financial_analysis, the run goes  *)
(* on until it returns, and the returned record has success False,         *)
(* recommendation ERROR, risk_level Unknown, a non-empty error and a       *)
(* final_report that contains the identifier and the error text.           *)
(***************************************************************************)
C3_FailureRecord ==
    FetchFailed =>
        /\ pc # "RAISED"
        /\ (pc # "RETURNED" => ENABLED Next)
        /\ (pc = "RETURNED" =>
                /\ ~output["success"]
                /\ output["recommendation"] = "ERROR"
                /\ output["risk_level"] = "Unknown"
                /\ "error" \in DOMAIN output
                /\ output["error"] # << >>
                /\ Contains(output["final_report"], output["ticker"])
                /\ Contains(output["final_report"], output["error"]))

C3_Witness ==
    /\ pc = "RETURNED"
    /\ fetch.kind = "frame"
    /\ fetch.hist.closes = << >>
    /\ output["ticker"] = <<"ZZZZ">>
    /\ output["recommendation"] = "ERROR"

(***************************************************************************)
(* C4. The analysis, risk and synthesis stages never let an exception      *)
(* leave them.  Fails: analysis_node reads stock.info outside any try      *)
(* block, so a fault of the company-info lookup leaves the node.           *)
(***************************************************************************)
C4_StagesNeverRaise == pc # "RAISED"

(***************************************************************************)
(* C5. Every invocation runs the four stages in the order ingestion,       *)
(* analysis, risk, synthesis, each exactly once, and then reaches END.     *)
(* Fails with C4: an invocation whose analysis stage raises stops after    *)
(* two stages and never reaches END.                                       *)
(***************************************************************************)
C5_FourStagesThenEnd ==
    /\ IsPrefix(trace, StageOrder)
    /\ (SynthesisDone => trace = StageOrder)
    /\ (pc # "RETURNED" => ENABLED Next)

(***************************************************************************)
(* C6. On the model-backed path the primary model is called first; the     *)
(* secondary model is called exactly once when the primary call faults,    *)
(* whatever the fault message, and never when the primary call succeeds;   *)
(* no invocation makes more than two model calls.                          *)
(***************************************************************************)
C6_PrimaryThenOneRetry ==
    /\ Len(calls) <= 2
    /\ IsPrefix(calls, <<model_name, fallback_model>>)
    /\ (SynthesisDone /\ llm.api_key /\ llm.primary.kind = "ok"
            => calls = <<model_name>>)
    /\ (SynthesisDone /\ llm.api_key /\ llm.primary.kind = "fault"
            => calls = <<model_name, fallback_model>>)

C6_Witness ==
    /\ pc = "END"
    /\ llm.primary.kind = "fault"
    /\ ~IsUnavailableSignature(llm.primary.msg)
    /\ calls = <<model_name, fallback_model>>

(***************************************************************************)
(* C7. When a model call succeeds and its response does not parse, the     *)
(* synthesis stage makes no further model call (an unparseable primary     *)
(* response does not bring in the secondary model) and returns the         *)
(* offline summary.                                                        *)
(***************************************************************************)
C7_ParseFailureNotRetried ==
    SynthesisDone /\ UnparsedAnswer =>
        /\ calls = (IF llm.primary.kind = "ok" THEN <<model_name>>
                    ELSE <<model_name, fallback_model>>)
        /\ ret = OfflineRecord
        /\ ~state["llm_used"]

C7_Witness ==
    /\ pc = "END"
    /\ llm.primary.kind = "ok"
    /\ ~llm.primary.content.parses
    /\ calls = <<model_name>>
    /\ state["recommendation"] = "BUY"

(***************************************************************************)
(* C8. On a pipeline without ingestion error the returned llm_used flag is *)
(* True exactly when a model call succeeded and its response parsed;       *)
(* otherwise the returned report is the offline summary with the flag      *)
(* False; success is True either way.                                      *)
(***************************************************************************)
C8_ModelFlag ==
    pc = "RETURNED" /\ FetchSucceeded =>
        /\ output["success"]
        /\ (output["llm_used"] <=> ParsedAnswer)
        /\ (~ParsedAnswer =>
                /\ ret = OfflineRecord
                /\ \A k \in ReportFields : output[k] = OfflineRecord[k])

C8_Witness ==
    /\ pc = "RETURNED"
    /\ FetchSucceeded
    /\ llm.primary.kind = "fault"
    /\ llm.secondary.kind = "fault"
    /\ ~output["llm_used"]
    /\ output["success"]

(***************************************************************************)
(* C9. generate_offline_summary never raises, whatever metric maps it is   *)
(* given.  Fails: a present non-numeric RSI (or a non-numeric Sharpe ratio *)
(* beside a numeric volatility) reaches a float format specification.      *)
(***************************************************************************)
C9_OfflineNeverRaises == pc # "offline_raised"

(***************************************************************************)
(* C10. The synthesis stage returns the same six fields on the             *)
(* model-backed path and on the offline path, so a run whose model calls   *)
(* all fault returns a record with the fields of a model-backed one.       *)
(***************************************************************************)
OutputFields ==
    {"ticker", "success", "analysis_date", "data_range", "fundamental_metrics",
     "technical_indicators", "risk_metrics"} \cup ReportFields

C10_SameFieldSet ==
    FetchSucceeded =>
        /\ (pc = "END" => DOMAIN ret = ReportFields)
        /\ (pc = "RETURNED" => DOMAIN output = OutputFields)

C10_Witness ==
    /\ pc = "END"
    /\ FetchSucceeded
    /\ llm.api_key
    /\ llm.primary.kind = "fault"
    /\ llm.secondary.kind = "fault"
    /\ DOMAIN ret = ReportFields

(***************************************************************************)
(* The inputs of the decision framework, as the caller of                  *)
(* generate_offline_summary gave them.                                     *)
(***************************************************************************)
Given(map, k) == map \in DOMAIN state /\ k \in DOMAIN state[map]

GivenNumber(map, k) == Given(map, k) /\ state[map][k].t = "num"

\* the number given under k, or dflt where the key is missing
NumberOr(map, k, dflt) == IF Given(map, k) THEN state[map][k].v ELSE dflt

\* the key k of the map is given with the value val
InputIs(map, k, val) == Given(map, k) /\ state[map][k] = val

GivenTrend(t) == InputIs("technical_indicators", "trend", Str(t))

\* no P/E ratio: the key is missing or holds "N/A"
PeUnavailable ==
    ~Given("fundamental_metrics", "pe_ratio")
        \/ InputIs("fundamental_metrics", "pe_ratio", Str("N/A"))

PeBelow30 ==
    GivenNumber("fundamental_metrics", "pe_ratio")
        /\ state["fundamental_metrics"]["pe_ratio"].v < 30 * Scale

PeAtLeast30 ==
    GivenNumber("fundamental_metrics", "pe_ratio")
        /\ state["fundamental_metrics"]["pe_ratio"].v >= 30 * Scale

RsiBelow70 ==
    GivenNumber("technical_indicators", "rsi_14")
        /\ state["technical_indicators"]["rsi_14"].v < 70 * Scale

\* volatility, current drawdown and Sharpe ratio are numbers or left out
\* (the function then reads 0.0)
RiskInputsNumeric ==
    \A k \in {"volatility", "current_drawdown", "sharpe_ratio"} :
        Given("risk_metrics", k) => state["risk_metrics"][k].t = "num"

VolatilityIn == NumberOr("risk_metrics", "volatility", 0)

DrawdownIn == NumberOr("risk_metrics", "current_drawdown", 0)

SharpeIn == NumberOr("risk_metrics", "sharpe_ratio", 0)

(***************************************************************************)
(* C11. For a trend of Bullish or Bearish, an RSI that is a number or NaN, *)
(* a P/E ratio that is a number or unavailable, and a numeric Sharpe ratio *)
(* and current drawdown, generate_offline_summary recommends BUY when the  *)
(* trend is Bullish and RSI < 70 and (P/E unavailable or P/E < 30 or       *)
(* Sharpe >= 0.5); otherwise SELL when the trend is not Bullish and        *)
(* (P/E >= 30 or current drawdown < -0.15); otherwise HOLD.                *)
(***************************************************************************)
C11_Inputs ==
    /\ GivenTrend("Bullish") \/ GivenTrend("Bearish")
    /\ Given("technical_indicators", "rsi_14")
    /\ state["technical_indicators"]["rsi_14"].t \in {"num", "nan"}
    /\ PeUnavailable \/ GivenNumber("fundamental_metrics", "pe_ratio")
    /\ GivenNumber("risk_metrics", "sharpe_ratio")
    /\ GivenNumber("risk_metrics", "current_drawdown")

C11_DecisionFramework ==
    pc \in {"offline_returned", "offline_raised"} /\ C11_Inputs =>
        /\ pc = "offline_returned"
        /\ ret["recommendation"] =
            IF /\ GivenTrend("Bullish")
               /\ RsiBelow70
               /\ (PeUnavailable \/ PeBelow30 \/ SharpeIn >= Scale \div 2)
            THEN "BUY"
            ELSE IF /\ ~GivenTrend("Bullish")
                    /\ (PeAtLeast30 \/ DrawdownIn < -((15 * Scale) \div 100))
            THEN "SELL"
            ELSE "HOLD"

\* a Bullish trend with RSI 72, a P/E of exactly 30 and a severe drawdown:
\* not BUY and, the trend being Bullish, not SELL
C11_Witness ==
    /\ pc = "offline_returned"
    /\ C11_Inputs
    /\ GivenTrend("Bullish")
    /\ InputIs("technical_indicators", "rsi_14", Num(72 * Scale))
    /\ InputIs("fundamental_metrics", "pe_ratio", Num(30 * Scale))
    /\ InputIs("risk_metrics", "sharpe_ratio", Num(-((20 * Scale) \div 100)))
    /\ InputIs("risk_metrics", "current_drawdown", Num(-((20 * Scale) \div 100)))
    /\ ret["recommendation"] = "HOLD"

(***************************************************************************)
(* C12. A missing or non-numeric RSI counts as rsi_ok with the neutral     *)
(* default 50: a Bullish trend with a reasonable P/E and a missing or      *)
(* non-numeric RSI yields BUY.  Holds for a missing RSI.  Fails for an RSI *)
(* that is present and not a number: rsi_ok is then False, and the RSI     *)
(* reaches a float format specification, so the function raises (C9).      *)
(***************************************************************************)
RsiMissing == ~Given("technical_indicators", "rsi_14")

RsiNonNumeric ==
    Given("technical_indicators", "rsi_14")
        /\ state["technical_indicators"]["rsi_14"].t \in {"str", "none"}

C12_MissingRsiIsOk ==
    /\ pc \in {"offline_returned", "offline_raised"}
    /\ GivenTrend("Bullish")
    /\ (PeUnavailable \/ PeBelow30)
    /\ RiskInputsNumeric
    /\ (RsiMissing \/ RsiNonNumeric)
    => (pc = "offline_returned" /\ ret["recommendation"] = "BUY")

(***************************************************************************)
(* C13. For numeric volatility, current drawdown and Sharpe ratio the risk *)
(* level follows the ordered rules: volatility >= 0.35 gives High; else    *)
(* current drawdown < -0.30 gives Extreme; else volatility < 0.20 and      *)
(* Sharpe >= 0.7 gives Low; else Medium.  Volatility exactly 0.35 gives    *)
(* High, and the largest volatility below 0.20 with Sharpe >= 0.7 and      *)
(* drawdown >= -0.30 gives Low.                                            *)
(***************************************************************************)
C13_OrderedRiskRules ==
    pc = "offline_returned" /\ RiskInputsNumeric =>
        /\ ret["risk_level"] =
            IF VolatilityIn >= (35 * Scale) \div 100 THEN "High"
            ELSE IF DrawdownIn < -((30 * Scale) \div 100) THEN "Extreme"
            ELSE IF VolatilityIn < (20 * Scale) \div 100
                    /\ SharpeIn >= (70 * Scale) \div 100 THEN "Low"
            ELSE "Medium"
        /\ (VolatilityIn = (35 * Scale) \div 100 => ret["risk_level"] = "High")
        /\ (/\ VolatilityIn = (20 * Scale) \div 100 - 1
            /\ SharpeIn >= (70 * Scale) \div 100
            /\ DrawdownIn >= -((30 * Scale) \div 100)
            => ret["risk_level"] = "Low")

\* the boundary below 0.20 with a Sharpe ratio of exactly 0.7
C13_Witness ==
    /\ pc = "offline_returned"
    /\ InputIs("risk_metrics", "volatility", Num((20 * Scale) \div 100 - 1))
    /\ InputIs("risk_metrics", "sharpe_ratio", Num((70 * Scale) \div 100))
    /\ InputIs("risk_metrics", "current_drawdown", Num(-((5 * Scale) \div 100)))
    /\ ret["risk_level"] = "Low"

(***************************************************************************)
(* C14. As claimed: the classification returns Extreme for no combination  *)
(* of volatility, current drawdown and Sharpe ratio.  Fails: the first     *)
(* rule shadows the second only when volatility >= 0.35.                   *)
(***************************************************************************)
C14_ExtremeUnreachable ==
    pc = "offline_returned" => ret["risk_level"] # "Extreme"

(***************************************************************************)
(* C14, amended.  The classification returns Extreme exactly when current  *)
(* drawdown < -0.30 and volatility is not a number >= 0.35.                *)
(***************************************************************************)
C14_ExtremeExactly ==
    pc = "offline_returned" =>
        (ret["risk_level"] = "Extreme"
            <=> /\ GivenNumber("risk_metrics", "current_drawdown")
                /\ DrawdownIn < -((30 * Scale) \div 100)
                /\ ~(/\ GivenNumber("risk_metrics", "volatility")
                     /\ VolatilityIn >= (35 * Scale) \div 100))

C14_Witness ==
    /\ pc = "offline_returned"
    /\ InputIs("risk_metrics", "volatility", Num((30 * Scale) \div 100))
    /\ InputIs("risk_metrics", "current_drawdown", Num(-((35 * Scale) \div 100)))
    /\ ret["risk_level"] = "Extreme"

(***************************************************************************)
(* C15. As claimed: trend Bearish, RSI 72, P/E 40, Sharpe -0.2, current    *)
(* drawdown -0.20 and volatility 0.30 give SELL with risk level High.      *)
(* Fails: a volatility of 0.30 is below 0.35, so the level is Medium.      *)
(***************************************************************************)
C15_Scenario ==
    /\ InputIs("technical_indicators", "trend", Str("Bearish"))
    /\ InputIs("technical_indicators", "rsi_14", Num(72 * Scale))
    /\ InputIs("fundamental_metrics", "pe_ratio", Num(40 * Scale))
    /\ InputIs("risk_metrics", "sharpe_ratio", Num(-((20 * Scale) \div 100)))
    /\ InputIs("risk_metrics", "current_drawdown", Num(-((20 * Scale) \div 100)))
    /\ InputIs("risk_metrics", "volatility", Num((30 * Scale) \div 100))

C15_ScenarioSellHigh ==
    pc = "offline_returned" /\ C15_Scenario =>
        ret["recommendation"] = "SELL" /\ ret["risk_level"] = "High"

(***************************************************************************)
(* C15, amended.  The same inputs give SELL with risk level Medium.        *)
(***************************************************************************)
C15_ScenarioSellMedium ==
    pc \in {"offline_returned", "offline_raised"} /\ C15_Scenario =>
        /\ pc = "offline_returned"
        /\ ret["recommendation"] = "SELL"
        /\ ret["risk_level"] = "Medium"

C15_Witness ==
    /\ pc = "offline_returned"
    /\ C15_Scenario
    /\ ret["recommendation"] = "SELL"

(***************************************************************************)
(* C16. With the three risk metrics given as numbers,                      *)
(* generate_offline_summary returns 3 to 5 key drivers: the trend entry,   *)
(* the RSI entry, then P/E (only when numeric), Sharpe ratio, volatility   *)
(* and current drawdown in this order, cut at five entries.  Fails: no cap *)
(* is applied, so a numeric P/E gives six entries.                         *)
(***************************************************************************)
RiskInputsGiven ==
    \A k \in {"volatility", "current_drawdown", "sharpe_ratio"} :
        GivenNumber("risk_metrics", k)

\* the metric each entry of a key_drivers list names
DriverLabels(key_drivers) == [i \in 1..Len(key_drivers) |-> key_drivers[i][1]]

DriverOrder ==
    <<"Trend signal: ", "RSI (14): ">>
    \o (IF GivenNumber("fundamental_metrics", "pe_ratio")
        THEN <<"P/E ratio: ">> ELSE << >>)
    \o <<"Sharpe ratio: ", "Volatility: ", "Current drawdown: ">>

C16_KeyDriversCapped ==
    pc = "offline_returned" /\ RiskInputsGiven =>
        /\ Len(ret["key_drivers"]) >= 3
        /\ Len(ret["key_drivers"]) <= 5
        /\ DriverLabels(ret["key_drivers"]) = SubSeq(DriverOrder, 1, 5)

(***************************************************************************)
(* C17. In every record run_financial_analysis returns, recommendation is  *)
(* one of BUY, SELL, HOLD, ERROR and risk_level is one of Low, Medium,     *)
(* High, Extreme, Unknown.  Fails: the fields of a model response that     *)
(* parses are stored as the model wrote them.                              *)
(***************************************************************************)
C17_EnumFields ==
    pc = "RETURNED" =>
        /\ output["recommendation"] \in {"BUY", "SELL", "HOLD", "ERROR"}
        /\ output["risk_level"] \in {"Low", "Medium", "High", "Extreme", "Unknown"}

(***************************************************************************)
(* The ordered risk-level rules applied to the risk metrics the risk stage *)
(* stored, and the report of the model response that parsed.               *)
(***************************************************************************)
StoredMetricBelow(k, bound) ==
    state["risk_metrics"][k].t = "num" /\ state["risk_metrics"][k].v < bound

StoredMetricAtLeast(k, bound) ==
    state["risk_metrics"][k].t = "num" /\ state["risk_metrics"][k].v >= bound

ClassifiedFromStoredMetrics ==
    IF StoredMetricAtLeast("volatility", (35 * Scale) \div 100) THEN "High"
    ELSE IF StoredMetricBelow("current_drawdown", -((30 * Scale) \div 100))
    THEN "Extreme"
    ELSE IF StoredMetricBelow("volatility", (20 * Scale) \div 100)
            /\ StoredMetricAtLeast("sharpe_ratio", (70 * Scale) \div 100)
    THEN "Low"
    ELSE "Medium"

ParsedReport ==
    IF llm.primary.kind = "ok" THEN llm.primary.content.report
    ELSE llm.secondary.content.report

(***************************************************************************)
(* C20. As claimed: on a run without upstream error the risk stage         *)
(* classifies the risk level, and the level of the final state is that     *)
(* classification, which the synthesis stage copies on both paths.  Fails: *)
(* risk_node returns the risk metrics only, and the model-backed path      *)
(* stores the level the model wrote.                                       *)
(***************************************************************************)
C20_RiskLevelFromRiskStage ==
    ~HasUpstreamError(state) =>
        /\ (pc = "synthesis_agent" => "risk_level" \in DOMAIN ret)
        /\ (SynthesisDone => state["risk_level"] = ClassifiedFromStoredMetrics)

(***************************************************************************)
(* C20, amended.  The risk stage returns the risk metrics and no risk      *)
(* level; the synthesis stage sets the level: on the deterministic path    *)
(* the ordered rules applied to the stored risk metrics, on the            *)
(* model-backed path the risk_level of the parsed model response.          *)
(***************************************************************************)
C20_RiskLevelFromSynthesis ==
    ~HasUpstreamError(state) =>
        /\ (pc = "synthesis_agent" =>
                /\ DOMAIN ret = {"risk_metrics"}
                /\ "risk_level" \notin DOMAIN state)
        /\ (SynthesisDone =>
                state["risk_level"] =
                    IF ParsedAnswer THEN ParsedReport["risk_level"]
                    ELSE ClassifiedFromStoredMetrics)

\* the model wrote Low where the rules give High
C20_Witness ==
    /\ pc = "RETURNED"
    /\ ~HasUpstreamError(state)
    /\ ParsedAnswer
    /\ output["risk_level"] = "Low"
    /\ ClassifiedFromStoredMetrics = "High"

(***************************************************************************)
(* C18. The confidence of the record analyze_stock returns is never below  *)
(* the 0.4 baseline and never above 1.0, whatever the three agents         *)
(* returned.  Fails: for an empty news list the sentiment result has no    *)
(* distribution, _calculate_confidence raises KeyError, and the record     *)
(* keeps its initial confidence 0.0.                                       *)
(***************************************************************************)
C18_ConfidenceBounded ==
    pc = "orch_returned" =>
        /\ output["confidence"].t = "num"
        /\ output["confidence"].v >= (40 * Scale) \div 100
        /\ output["confidence"].v <= Scale

(***************************************************************************)
(* C19. Two invocations of run_financial_analysis that run interleaved     *)
(* share no mutable state: each starts from a state holding only its own   *)
(* identifier, and the record each returns is the one a run on its own     *)
(* builds from its identifier and the responses its collaborators gave     *)
(* it, whatever the other invocation did in between.                       *)
(***************************************************************************)
\* the record of a run on its own: the four nodes applied in graph order to a
\* fresh state, and the record built from the final state
RunAlone(r, env) ==
    LET s0 == [ticker |-> r.ticker]
        s1 == Merge(s0, Channels(data_ingestion_node(s0, r.history).update))
        s2 == Merge(s1, Channels(analysis_node(s1, r.info).update))
        s3 == Merge(s2, Channels(risk_node(s2).update))
        s4 == Merge(s3, Channels(synthesis_node(s3, env).result.update))
    IN  OutputData(s4, r.now)

C19_NoSharedState ==
    \A i \in Invocations :
        /\ (pc[i] = "data_agent" => state[i] = [ticker |-> fetch[i].ticker])
        /\ (pc[i] = "RETURNED" => output[i] = RunAlone(fetch[i], llm[i]))

\* the first invocation has returned a model-backed record while the second,
\* called with another identifier and given a failing fetch, is under way
C19_Witness ==
    /\ pc[1] = "RETURNED"
    /\ output[1]["llm_used"]
    /\ output[1]["ticker"] = <<"AAPL">>
    /\ pc[2] = "risk_agent"
    /\ fetch[2].ticker = <<"ZZZZ">>
    /\ fetch[2].history.kind = "fault"

(***************************************************************************)
(* C21. After an ingestion failure the downstream fields stay empty: the   *)
(* price history is absent, no start or end date is ever set, and          *)
(* fundamental_metrics, technical_indicators and risk_metrics are empty    *)
(* maps wherever a stage has written them, in every state after the        *)
(* failure and in the returned record.                                     *)
(***************************************************************************)
MetricMaps == {"fundamental_metrics", "technical_indicators", "risk_metrics"}

C21_DownstreamEmpty ==
    FetchFailed =>
        /\ state["historical_data"].isNone
        /\ "start_date" \notin DOMAIN state
        /\ "end_date" \notin DOMAIN state
        /\ \A k \in MetricMaps : k \in DOMAIN state => DOMAIN state[k] = {}
        /\ (pc = "RETURNED" =>
                /\ output["data_range"] = [start |-> None, end |-> None]
                /\ \A k \in MetricMaps : DOMAIN output[k] = {})

\* the collaborator handed back None; all four stages ran and the record returned
C21_Witness ==
    /\ pc = "RETURNED"
    /\ trace = StageOrder
    /\ fetch.kind = "frame"
    /\ fetch.hist.isNone
    /\ \A k \in MetricMaps : k \in DOMAIN state /\ DOMAIN output[k] = {}

(***************************************************************************)
(* C22. On the deterministic path of a run whose fetch succeeded, the      *)
(* recommendation and the risk level are those the threshold tests give    *)
(* on the unrounded RSI, Sharpe ratio, current drawdown and volatility of  *)
(* the price series.  Fails: the stages store round(x, 2) and round(x, 4)  *)
(* and synthesis compares the stored values, so a Sharpe ratio of 0.498    *)
(* is tested as 0.50.                                                      *)
(***************************************************************************)
\* the metrics of the fetched series before any rounding
ExactRsi == LatestRSI(fetch.hist.closes)

ExactSharpe == SharpeRatio(fetch.hist.closes)

ExactDrawdown == CurrentDrawdown(fetch.hist.closes)

ExactVolatility == StdDev(fetch.hist.closes)

ExactRecommendation ==
    LET bullish == output["technical_indicators"]["trend"] = Str("Bullish")
        pe      == output["fundamental_metrics"]["pe_ratio"]
        pe_ok   == ~IsNumeric(pe) \/ Lt(pe, Num(30 * Scale))
    IN  IF bullish /\ Lt(ExactRsi, Num(70 * Scale))
              /\ (pe_ok \/ Ge(ExactSharpe, Num(Scale \div 2)))
        THEN "BUY"
        ELSE IF ~bullish /\ (~pe_ok \/ Lt(ExactDrawdown, Num(-Pct(15))))
        THEN "SELL"
        ELSE "HOLD"

ExactRiskLevel ==
    IF Ge(ExactVolatility, Num(Pct(35))) THEN "High"
    ELSE IF Lt(ExactDrawdown, Num(-Pct(30))) THEN "Extreme"
    ELSE IF Lt(ExactVolatility, Num(Pct(20))) /\ Ge(ExactSharpe, Num(Pct(70)))
    THEN "Low"
    ELSE "Medium"

C22_ThresholdsOnExactValues ==
    (pc = "RETURNED" /\ FetchSucceeded /\ ~output["llm_used"]) =>
        /\ output["recommendation"] = ExactRecommendation
        /\ output["risk_level"] = ExactRiskLevel

(***************************************************************************)
(* C23. The RSI is never undefined through a division by zero: whenever    *)
(* the smoothed loss is 0, which is whenever no row of the fetched series  *)
(* closes below the row before it (a single row, a flat series, a series   *)
(* that only rises), the reported RSI is 100.  Fails: with no rise either  *)
(* the smoothed gain is 0 too, gain / loss is 0 / 0 and the RSI is NaN.    *)
(***************************************************************************)
NeverFalls(closes) == \A i \in 1..(Len(closes) - 1) : closes[i + 1] >= closes[i]

AnalysisDone ==
    /\ FetchSucceeded
    /\ "technical_indicators" \in DOMAIN state
    /\ "rsi_14" \in DOMAIN state["technical_indicators"]

C23_RsiSaturates ==
    (AnalysisDone /\ NeverFalls(fetch.hist.closes)) =>
        state["technical_indicators"]["rsi_14"] = Num(100 * Scale)

(***************************************************************************)
(* C24. For every fetched series of at least two rows the risk stage       *)
(* stores max_drawdown <= current_drawdown <= 0, and when every daily      *)
(* return is positive both are 0.                                          *)
(***************************************************************************)
RiskDone ==
    /\ FetchSucceeded
    /\ "risk_metrics" \in DOMAIN state
    /\ DOMAIN state["risk_metrics"] # {}

AlwaysRises(closes) == \A i \in 1..(Len(closes) - 1) : closes[i + 1] > closes[i]

C24_DrawdownOrder ==
    (RiskDone /\ Len(fetch.hist.closes) >= 2) =>
        LET max_drawdown     == state["risk_metrics"]["max_drawdown"]
            current_drawdown == state["risk_metrics"]["current_drawdown"]
        IN  /\ max_drawdown.t = "num"
            /\ current_drawdown.t = "num"
            /\ max_drawdown.v <= current_drawdown.v
            /\ current_drawdown.v <= 0
            /\ (AlwaysRises(fetch.hist.closes) =>
                    max_drawdown.v = 0 /\ current_drawdown.v = 0)

\* the series has recovered part of its deepest fall
C24_Witness ==
    /\ RiskDone
    /\ Len(fetch.hist.closes) >= 2
    /\ state["risk_metrics"]["max_drawdown"].v < state["risk_metrics"]["current_drawdown"].v
    /\ state["risk_metrics"]["current_drawdown"].v < 0

(***************************************************************************)
(* C25. analyze_stock never raises and always returns a record with the    *)
(* symbol and a recommendation among buy, sell and hold, whatever the      *)
(* three agents did; when an exception occurs inside the orchestration     *)
(* the record also carries an error field and the workflow record holds    *)
(* the error and an end time.  No step of the call can fail to be taken:   *)
(* each agent step hands back a record with a status, and every later step *)
(* finds the agent results it reads.                                       *)
(***************************************************************************)
\* the workflow record of the call that returned
ReturnedWorkflow ==
    state.state_manager.workflows[output.symbol \o <<"_", output.analysis_type>>]

\* the one exception the three agents' results can cause after they ran: a
\* successful sentiment result without a distribution
ExceptionInOrchestration ==
    /\ ret.agent_results["sentiment"]["status"] = "success"
    /\ "distribution" \notin DOMAIN ret.agent_results["sentiment"]

C25_NeverRaises ==
    /\ exc = NoException
    /\ (pc = "create_workflow" => ENABLED CreateWorkflow)
    /\ (pc = "market_data" =>
            \A m \in MarketOutcomes :
                ~MarketDataAgent_execute(
                    [symbol |-> ret.symbol, period |-> ret.period], m).raised)
    /\ (pc = "sentiment" => DOMAIN ret.agent_results = {"market_data"})
    /\ (pc = "risk" => DOMAIN ret.agent_results = {"market_data", "sentiment"})
    /\ (pc \in {"synthesize", "orch_returned"} =>
            /\ DOMAIN ret.agent_results = AgentNames
            /\ \A a \in AgentNames :
                    ret.agent_results[a]["status"] \in {"success", "error"})
    /\ pc \in {"create_workflow", "market_data", "sentiment", "risk", "synthesize",
               "orch_returned"}
    /\ (pc = "orch_returned" =>
            /\ output.symbol \in Tickers
            /\ output.recommendation \in {"buy", "sell", "hold"}
            /\ (ExceptionInOrchestration =>
                    /\ "error" \in DOMAIN output
                    /\ "error" \in DOMAIN ReturnedWorkflow
                    /\ ReturnedWorkflow.error = output.error
                    /\ ReturnedWorkflow.end_time # << >>))

\* the news list was empty, the confidence computation raised, and the handler
\* of analyze_stock returned the record
C25_Witness ==
    /\ pc = "orch_returned"
    /\ fetch.news = << >>
    /\ "error" \in DOMAIN output
    /\ output.recommendation = "hold"
    /\ ReturnedWorkflow.end_time = Timestamp

(***************************************************************************)
(* C26. BaseAgent.run never raises: the record it returns has status       *)
(* success and every field execute produced exactly when execute returned  *)
(* normally, and status error with the exception text exactly when         *)
(* execute raised.                                                         *)
(***************************************************************************)
\* execute raises exactly on a non-empty news list with a title that is None
ExecuteRaises(input_data) ==
    /\ input_data.news # << >>
    /\ \E i \in 1..Len(input_data.news) : input_data.news[i].title.isNone

\* the fields execute hands back when it returns
ExecuteFields(input_data) ==
    IF input_data.news = << >>
    THEN {"overall_sentiment", "sentiment_score", "confidence", "articles_analyzed"}
    ELSE {"overall_sentiment", "sentiment_score", "confidence", "articles_analyzed",
          "distribution"}

RunMetadata == {"agent_name", "agent_type", "status", "execution_time", "timestamp"}

C26_RunNeverRaises ==
    /\ exc = NoException
    /\ (trace # << >> /\ trace[Len(trace)] # "reset") =>
        /\ ret["status"] \in {"success", "error"}
        /\ (ret["status"] = "error" <=> ExecuteRaises(fetch))
        /\ (ret["status"] = "error" <=> trace[Len(trace)] = "raised")
        /\ (ret["status"] = "success" =>
                /\ DOMAIN ret = ExecuteFields(fetch) \cup RunMetadata
                /\ \A k \in ExecuteFields(fetch) :
                        ret[k] = SentimentAgent_execute(fetch).update[k])
        /\ (ret["status"] = "error" =>
                /\ DOMAIN ret = RunMetadata \cup {"error"}
                /\ ret["error"] = SentimentAgent_execute(fetch).exc)

\* a run whose execute raised, after a run whose execute returned
C26_Witness ==
    /\ trace = <<"returned", "raised">>
    /\ ret["status"] = "error"
    /\ ret["agent_name"] = "Sentiment Agent"

(***************************************************************************)
(* C30. After any sequence of run and reset_metrics calls on an agent,     *)
(* 0 <= success_count <= execution_count, execution_count is the number of *)
(* run calls since the last reset, and success_count is the number of      *)
(* those calls in which execute returned normally.                         *)
(***************************************************************************)
RECURSIVE SinceReset(_)
SinceReset(history) ==
    IF history = << >> \/ history[Len(history)] = "reset" THEN << >>
    ELSE Append(SinceReset(SubSeq(history, 1, Len(history) - 1)),
                history[Len(history)])

Occurrences(history, what) ==
    Cardinality({i \in 1..Len(history) : history[i] = what})

C30_CountersMatchHistory ==
    /\ 0 <= state.success_count
    /\ state.success_count <= state.execution_count
    /\ state.execution_count = Len(SinceReset(trace))
    /\ state.success_count = Occurrences(SinceReset(trace), "returned")

\* one run that returned before the reset, one run that raised after it
C30_Witness ==
    /\ trace = <<"returned", "reset", "raised">>
    /\ state.execution_count = 1
    /\ state.success_count = 0

(***************************************************************************)
(* C27. With no API key configured, the synthesis stage of a run whose     *)
(* fetch succeeded makes no model call and returns the deterministic       *)
(* fallback result with llm_used False.                                    *)
(***************************************************************************)
NoApiKey == SynthesisDone /\ FetchSucceeded /\ ~llm.api_key

C27_NoKeyNoCalls ==
    NoApiKey =>
        /\ calls = << >>
        /\ ret = OfflineRecord
        /\ state["llm_used"] = FALSE
        /\ \A k \in ReportFields : state[k] = OfflineRecord[k]
        /\ (pc = "RETURNED" =>
                /\ output["llm_used"] = FALSE
                /\ output["success"]
                /\ \A k \in ReportFields : output[k] = OfflineRecord[k])

\* a returned record of the deterministic path, built without a key
C27_Witness ==
    /\ pc = "RETURNED"
    /\ NoApiKey
    /\ trace = StageOrder
    /\ output["llm_used"] = FALSE
    /\ output["recommendation"] = "BUY"
    /\ output["risk_level"] = "High"

(***************************************************************************)
(* C28. The endpoint POST /analyze answers 404 with the pipeline's error   *)
(* message whenever run_financial_analysis returns a record with success   *)
(* False, 400 for an empty ticker, and 500 only when                       *)
(* run_financial_analysis itself raises.  Fails: the 404 is raised inside  *)
(* the try block whose handler catches every Exception, so it leaves the   *)
(* endpoint as a 500.                                                      *)
(***************************************************************************)
\* the request's ticker is empty once white space is taken away
EmptyTicker == \A i \in 1..Len(fetch.request) : fetch.request[i] = " "

PipelineRaised == trace # << >> /\ ret.raised

PipelineFailedRecord == trace # << >> /\ ~ret.raised /\ ~ret.update["success"]

C28_StatusCodes ==
    pc = "responded" =>
        /\ (EmptyTicker => output.status_code = 400 /\ trace = << >>)
        /\ (PipelineFailedRecord =>
                /\ output.status_code = 404
                /\ output.detail = ret.update["error"])
        /\ (output.status_code = 500 => PipelineRaised)

(***************************************************************************)
(* C29. When two analyze_stock calls run interleaved on the one shared     *)
(* MasterOrchestrator, every agent result is stored in the workflow record *)
(* created by the call that produced it: no result is written into the     *)
(* other call's workflow, and neither call's workflow record is replaced   *)
(* or lost, also when both calls use the same symbol and analysis type.    *)
(* Fails: the state manager writes under the identifier of the workflow    *)
(* created last, and a second creation under the same identifier replaces  *)
(* the record of the first.                                                *)
(***************************************************************************)
\* the positions of the trace where a workflow record was created
Creations == {k \in 1..Len(trace) : trace[k].step = "create_workflow"}

\* the call that created the record standing under the identifier written
\* at position k of the trace
RecordCreator(k) ==
    LET before == {c \in Creations : c < k /\ trace[c].into = trace[k].into}
    IN  trace[CHOOSE c \in before : \A d \in before : d <= c].call

\* the agent results call i holds in its own result dict
OwnResults(i) == ret[i].agent_results

\* the workflow record under the identifier call i created
WorkflowOf(i) ==
    state.state_manager.workflows[ret[i].symbol \o <<"_", ret[i].analysis_type>>]

\* the second call began while the first had begun and not yet returned
Interleaved ==
    \E c, d \in Creations :
        /\ c < d
        /\ trace[c].call # trace[d].call
        /\ \A k \in c..d : ~(trace[k].call = trace[c].call /\ trace[k].step = "synthesize")

C29_ResultsInOwnWorkflow ==
    Interleaved =>
        /\ \A k \in 1..Len(trace) :
              trace[k].step \in AgentNames => RecordCreator(k) = trace[k].call
        /\ \A c, d \in Creations :
              c < d => trace[c].into # trace[d].into
        /\ \A i \in Invocations :
              \A name \in DOMAIN OwnResults(i) :
                  /\ name \in DOMAIN WorkflowOf(i).results
                  /\ WorkflowOf(i).results[name] = OwnResults(i)[name]

====
